---- MODULE Spec2Model ----
(***************************************************************************)
(* FileManager-API: path sandbox, progress registry, chunked upload and    *)
(* zip extraction, modelled from the Go sources.                           *)
(*                                                                         *)
(* A Go string is a sequence of one-character strings, so that             *)
(* strings.HasPrefix, filepath.Clean and filepath.Join are computed on     *)
(* characters as the library computes them.                                *)
(***************************************************************************)
EXTENDS Integers, Sequences, FiniteSets, TLC

(***************************************************************************)
(* Bounds of the model.                                                    *)
(***************************************************************************)
\* longest caller-supplied path string that is enumerated
MaxPathLen == 5

\* requests that register a progress record, over a run of Spec
MaxOps == 1

\* Upload calls over a run of SpecUpload, which may all be in flight together
MaxUploads == 2

\* UploadChunk calls that may be in flight together
MaxCallers == 2

\* chunk sessions opened over a run of SpecChunk
MaxSessions == 2

\* chunk payloads stored over a run of SpecChunk
MaxSubmits == 3

\* chunks of the session of SpecChunkLarge that are still to be submitted
LastChunks == 3

\* entries of an archive
MaxEntries == 2

\* Extract calls that register a record, over a run of SpecExtract
MaxExtracts == 1

\* longest upload stream, in bytes
MaxStream == 2

\* requests the handlers of FileManagerHandler serve over a run of SpecFm
MaxServed == 1

\* Compress and Extract calls that register a record, over a run of SpecRound
MaxRound == 2

\* the characters caller-supplied paths are written with
PathChars == {"/", ".", "a", "b"}

(***************************************************************************)
(* Strings.                                                                *)
(***************************************************************************)
RECURSIVE StringsUpTo(_)
\* every string over PathChars of length <= n
StringsUpTo(n) ==
    IF n = 0 THEN {<<>>}
    ELSE LET shorter == StringsUpTo(n - 1)
         IN  shorter \cup {Append(s, c) : s \in {t \in shorter : Len(t) = n - 1}, c \in PathChars}

\* strings.HasPrefix(s, prefix): comparison of characters, not of components
HasPrefix(s, prefix) ==
    /\ Len(prefix) <= Len(s)
    /\ \A i \in 1..Len(prefix) : s[i] = prefix[i]

\* strings.TrimPrefix(s, prefix)
TrimPrefix(s, prefix) ==
    IF HasPrefix(s, prefix) THEN SubSeq(s, Len(prefix) + 1, Len(s)) ELSE s

\* strings.TrimSuffix(s, suffix)
TrimSuffix(s, suffix) ==
    IF /\ Len(suffix) <= Len(s)
       /\ SubSeq(s, Len(s) - Len(suffix) + 1, Len(s)) = suffix
    THEN SubSeq(s, 1, Len(s) - Len(suffix))
    ELSE s

\* index of the last separator of s, 0 when there is none
LastSep(s) ==
    IF \E i \in 1..Len(s) : s[i] = "/"
    THEN CHOOSE i \in 1..Len(s) : s[i] = "/" /\ \A j \in (i + 1)..Len(s) : s[j] # "/"
    ELSE 0

RECURSIVE SplitFrom(_, _, _)
\* the components of s between separators, from position i on; cur is the
\* component being read
SplitFrom(s, i, cur) ==
    IF i > Len(s) THEN <<cur>>
    ELSE IF s[i] = "/" THEN <<cur>> \o SplitFrom(s, i + 1, <<>>)
    ELSE SplitFrom(s, i + 1, Append(cur, s[i]))

\* strings.Split(s, "/")
Split(s) == SplitFrom(s, 1, <<>>)

RECURSIVE JoinComps(_)
\* strings.Join(comps, "/")
JoinComps(comps) ==
    IF Len(comps) = 0 THEN <<>>
    ELSE IF Len(comps) = 1 THEN comps[1]
    ELSE comps[1] \o <<"/">> \o JoinComps(Tail(comps))

DotDot == <<".", ".">>

RECURSIVE CleanComps(_, _, _, _)
\* the loop of filepath.Clean: out is the stack of components kept so far
CleanComps(comps, i, out, rooted) ==
    IF i > Len(comps) THEN out
    ELSE LET c == comps[i]
         IN  IF c = <<>> \/ c = <<".">>
             THEN CleanComps(comps, i + 1, out, rooted)
             ELSE IF c = DotDot
             THEN IF Len(out) > 0 /\ out[Len(out)] # DotDot
                  THEN CleanComps(comps, i + 1, SubSeq(out, 1, Len(out) - 1), rooted)
                  ELSE IF rooted
                  THEN CleanComps(comps, i + 1, out, rooted)
                  ELSE CleanComps(comps, i + 1, Append(out, c), rooted)
             ELSE CleanComps(comps, i + 1, Append(out, c), rooted)

\* filepath.IsAbs
IsAbs(path) == Len(path) > 0 /\ path[1] = "/"

\* filepath.Clean
Clean(path) ==
    IF path = <<>> THEN <<".">>
    ELSE LET rooted == IsAbs(path)
             kept   == CleanComps(Split(path), 1, <<>>, rooted)
         IN  IF rooted THEN <<"/">> \o JoinComps(kept)
             ELSE IF kept = <<>> THEN <<".">>
             ELSE JoinComps(kept)

\* filepath.Join(a, b): empty elements are ignored, the rest joined and cleaned
Join(a, b) ==
    IF a = <<>> /\ b = <<>> THEN <<>>
    ELSE IF a = <<>> THEN Clean(b)
    ELSE IF b = <<>> THEN Clean(a)
    ELSE Clean(a \o <<"/">> \o b)

\* the working directory of the server process
Getwd == <<"/">>

\* filepath.Abs
Abs(path) == IF IsAbs(path) THEN Clean(path) ELSE Join(Getwd, path)

\* filepath.Dir
Dir(path) == Clean(SubSeq(path, 1, LastSep(path)))

RECURSIVE StripTrailingSeps(_)
StripTrailingSeps(path) ==
    IF Len(path) > 0 /\ path[Len(path)] = "/"
    THEN StripTrailingSeps(SubSeq(path, 1, Len(path) - 1))
    ELSE path

\* filepath.Base
Base(path) ==
    IF path = <<>> THEN <<".">>
    ELSE LET p == StripTrailingSeps(path)
         IN  IF p = <<>> THEN <<"/">>
             ELSE SubSeq(p, LastSep(p) + 1, Len(p))

\* filepath.Ext: from the last dot of the last element on
Ext(path) ==
    LET dots == {i \in (LastSep(path) + 1)..Len(path) : path[i] = "."}
    IN  IF dots = {} THEN <<>>
        ELSE SubSeq(path, CHOOSE i \in dots : \A j \in dots : j <= i, Len(path))

Digits == <<"0", "1", "2", "3", "4", "5", "6", "7", "8", "9">>

RECURSIVE Itoa(_)
\* fmt.Sprintf("%d", n) for n >= 0
Itoa(n) ==
    IF n < 10 THEN <<Digits[n + 1]>>
    ELSE Itoa(n \div 10) \o <<Digits[(n % 10) + 1]>>

(***************************************************************************)
(* internal/utils/pathutils.go                                             *)
(***************************************************************************)
ErrNone == "nil"
ErrPathTraversal == "path traversal detected"

\* SanitizePath
SanitizePath(path) == TrimPrefix(Clean(path), <<"/">>)

\* the containment test of ValidatePath
UnderBase(absPath, absBase) == HasPrefix(absPath, absBase)

\* ValidatePath: the pair (path, error) it returns
ValidatePath(basePath, requestedPath) ==
    LET cleanBase == Clean(basePath)
        cleanReq  == SanitizePath(requestedPath)
        fullPath  == Join(cleanBase, cleanReq)
        absPath   == Abs(fullPath)
        absBase   == Abs(cleanBase)
    IN  IF cleanReq = <<>> \/ cleanReq = <<".">>
        THEN [path |-> cleanBase, err |-> ErrNone]
        ELSE IF ~UnderBase(absPath, absBase)
        THEN [path |-> <<>>, err |-> ErrPathTraversal]
        ELSE [path |-> absPath, err |-> ErrNone]

(***************************************************************************)
(* The filesystem: a function from the paths that exist to their nodes.    *)
(* A file holds bytes; a zip file holds the entries of its archive.        *)
(***************************************************************************)
DirNode == [kind |-> "dir", data |-> <<>>, entries |-> <<>>]
FileNode(data) == [kind |-> "file", data |-> data, entries |-> <<>>]
ZipNode(entries) == [kind |-> "zip", data |-> <<>>, entries |-> entries]

\* PathExists (os.Stat succeeds)
PathExists(files, path) == path \in DOMAIN files

\* IsDir
IsDir(files, path) == PathExists(files, path) /\ files[path].kind = "dir"

RECURSIVE Ancestors(_)
\* path and every directory above it
Ancestors(path) ==
    IF Dir(path) = path THEN {path} ELSE {path} \cup Ancestors(Dir(path))

\* os.MkdirAll can succeed: no existing element of the path is a file
CanMkdirAll(files, path) ==
    \A a \in Ancestors(path) : PathExists(files, a) => files[a].kind = "dir"

\* os.MkdirAll fails: an element of the path is a file, or a directory has to
\* be made and the system refuses (ioOk is false); a path that is a
\* directory already never fails
MkdirAllFails(files, path, ioOk) ==
    \/ ~CanMkdirAll(files, path)
    \/ ~IsDir(files, path) /\ ~ioOk

\* os.MkdirAll: path and its missing ancestors become directories
MkdirAll(files, path) ==
    [q \in DOMAIN files \cup Ancestors(path) |->
        IF q \in DOMAIN files THEN files[q] ELSE DirNode]

\* os.Create / os.OpenFile(O_CREATE|O_TRUNC) succeeds: the parent is a
\* directory and the path is not one
CanCreate(files, path) ==
    /\ IsDir(files, Dir(path))
    /\ ~IsDir(files, path)

\* the file at path replaced by node
WriteNode(files, path, node) ==
    [q \in DOMAIN files \cup {path} |-> IF q = path THEN node ELSE files[q]]

\* GenerateUniqueName with a loop that takes the first suffixed name as it is
NumberedNameOnce(files, dir, name, ext, counter) ==
    Join(dir, name \o <<"_">> \o Itoa(counter) \o ext)

RECURSIVE NumberedName(_, _, _, _, _)
\* the loop of GenerateUniqueName
NumberedName(files, dir, name, ext, counter) ==
    LET newPath == Join(dir, name \o <<"_">> \o Itoa(counter) \o ext)
    IN  IF ~PathExists(files, newPath) THEN newPath
        ELSE NumberedName(files, dir, name, ext, counter + 1)

\* GenerateUniqueName
GenerateUniqueName(files, path) ==
    IF ~PathExists(files, path) THEN path
    ELSE LET ext == Ext(path)
         IN  NumberedName(files, Dir(path), TrimSuffix(Base(path), ext), ext, 1)

ErrOutsideBasePath == "path is outside allowed base path"

\* the elements of a cleaned path
Components(path) == SelectSeq(Split(path), LAMBDA c : c # <<>>)

RECURSIVE CommonLen(_, _, _)
\* the number of leading elements that two paths share, counted from i
CommonLen(bc, tc, i) ==
    IF i > Len(bc) \/ i > Len(tc) \/ bc[i] # tc[i] THEN i - 1
    ELSE CommonLen(bc, tc, i + 1)

\* the result of filepath.Rel from the elements of both paths, of which the
\* first k are shared: one ".." for each further element of the base, then
\* the further elements of the target
RelFrom(bc, tc, k) ==
    IF k = Len(bc) /\ k = Len(tc) THEN <<".">>
    ELSE JoinComps([i \in 1..(Len(bc) - k) |-> DotDot] \o SubSeq(tc, k + 1, Len(tc)))

\* filepath.Rel(basepath, targpath) for two absolute paths
RelPath(basepath, targpath) ==
    RelFrom(Components(Clean(basepath)), Components(Clean(targpath)),
            CommonLen(Components(Clean(basepath)), Components(Clean(targpath)), 1))

\* lines 78-83 of GetRelativePath: a result that starts with the two
\* characters ".." is refused
RelativeOf(rel) ==
    IF HasPrefix(rel, DotDot)
    THEN [path |-> <<>>, err |-> ErrOutsideBasePath]
    ELSE [path |-> rel, err |-> ErrNone]

\* GetRelativePath: the pair (path, error) it returns
GetRelativePath(basePath, fullPath) == RelativeOf(RelPath(Abs(basePath), Abs(fullPath)))

(***************************************************************************)
(* Containment by path components: what a sandbox has to guarantee.        *)
(***************************************************************************)
\* p is root or a descendant of root, both cleaned absolute paths
Within(p, root) ==
    \/ p = root
    \/ HasPrefix(p, IF root = <<"/">> THEN root ELSE root \o <<"/">>)

(***************************************************************************)
(* models.ProgressStore and the services' marks on it.                     *)
(***************************************************************************)
StatusPending == "pending"
StatusUploading == "uploading"
StatusProcessing == "processing"
StatusCompleted == "completed"
StatusFailed == "failed"

\* a models.Progress as the services create it
NewProgress(filename, totalBytes, status) ==
    [Filename |-> filename, Progress |-> 0, UploadedBytes |-> 0,
     TotalBytes |-> totalBytes, Status |-> status, Error |-> ""]

\* ProgressStore.Set
StoreSet(store, id, rec) ==
    [k \in DOMAIN store \cup {id} |-> IF k = id THEN rec ELSE store[k]]

\* the percentage of ProgressStore.Update: int((uploadedBytes * 100) / TotalBytes)
Percent(uploadedBytes, totalBytes) == (uploadedBytes * 100) \div totalBytes

\* an Update that takes its argument for a delta and adds it
StoreUpdateAdding(store, id, uploadedBytes) ==
    IF id \notin DOMAIN store THEN store
    ELSE LET p == store[id]
             sum == p.UploadedBytes + uploadedBytes
         IN  [store EXCEPT ![id] =
                [p EXCEPT !.UploadedBytes = sum,
                          !.Progress = IF p.TotalBytes > 0
                                       THEN Percent(sum, p.TotalBytes)
                                       ELSE p.Progress]]

\* an Update that also marks the record as uploading
StoreUpdateMarking(store, id, uploadedBytes) ==
    IF id \notin DOMAIN store THEN store
    ELSE LET p == store[id]
         IN  [store EXCEPT ![id] =
                [p EXCEPT !.UploadedBytes = uploadedBytes,
                          !.Status = StatusUploading,
                          !.Progress = IF p.TotalBytes > 0
                                       THEN Percent(uploadedBytes, p.TotalBytes)
                                       ELSE p.Progress]]

\* ProgressStore.Update
StoreUpdate(store, id, uploadedBytes) ==
    IF id \notin DOMAIN store THEN store
    ELSE LET p == store[id]
         IN  [store EXCEPT ![id] =
                [p EXCEPT !.UploadedBytes = uploadedBytes,
                          !.Progress = IF p.TotalBytes > 0
                                       THEN Percent(uploadedBytes, p.TotalBytes)
                                       ELSE p.Progress]]

\* updateProgressError
UpdateProgressError(store, id, errorMsg) ==
    IF id \notin DOMAIN store THEN store
    ELSE [store EXCEPT ![id] = [@ EXCEPT !.Status = StatusFailed, !.Error = errorMsg]]

\* a completion mark that is put on every record of the store
UpdateProgressCompletedAll(store, id) ==
    [k \in DOMAIN store |->
        [store[k] EXCEPT !.Status = StatusCompleted,
                         !.Progress = 100,
                         !.UploadedBytes = store[k].TotalBytes]]

\* updateProgressCompleted
UpdateProgressCompleted(store, id) ==
    IF id \notin DOMAIN store THEN store
    ELSE LET p == store[id]
         IN  [store EXCEPT ![id] =
                [p EXCEPT !.Status = StatusCompleted,
                          !.Progress = 100,
                          !.UploadedBytes = p.TotalBytes]]

\* ProgressWriter.Write: n bytes more have gone through the writer
ProgressWriterWrite(written, n) == written + n

VARIABLES
    vpBase,     \* ValidatePath under test: the root
    vpReq,      \*   the requested path
    vpOut,      \*   what it returned
    fs,         \* the filesystem
    progress,   \* ProgressStore.data
    nextId,     \* the next identifier uuid.New() hands out
    ups,        \* the Upload calls in flight, by upload id
    chunks,     \* ChunkStore.chunks of the long-lived UploadService
    scratch,    \* the files of each session's TempDir, by name
    calls,      \* the UploadChunk calls in flight, by caller
    sent,       \* per session and chunk index, the payload lengths submitted
    issued,     \* the upload ids that init requests of the handler returned
    resp,       \* the response of the handler that answered in the last step
    ret,        \* what the call that returned in the last step returned
    touched,    \* the paths the last step built and used on the filesystem
    rfs,        \* the filesystem of the remote server, reached over SFTP
    ssh,        \* the remote descriptor of the requests being served, and the
                \*   state of the secure-shell session opened for them
    stream,     \* the progress stream of one subscriber
    served      \* the number of requests FileManagerHandler has served

pathVars == <<vpBase, vpReq, vpOut>>

svcVars == <<fs, progress, nextId, ups, chunks, scratch, calls, sent, issued, resp, ret,
             touched>>

chunkVars == <<chunks, scratch, calls, sent, issued, resp>>

fmVars == <<rfs, ssh, stream, served>>

vars == <<vpBase, vpReq, vpOut, fs, progress, nextId, ups, chunks, scratch, calls,
          sent, issued, resp, ret, touched, rfs, ssh, stream, served>>

\* the tenant roots: config.BasePath + "/" + userSite
Roots == {<<"/", "h", "/", "a">>, <<"/", "h", "/", "b">>}

\* the root of the tenant whose services are modelled
BasePath == <<"/", "h", "/", "a">>

PathInputs == StringsUpTo(MaxPathLen)

NoResult == [path |-> <<>>, err |-> "none"]

NoRet == [op |-> "", id |-> 0, err |-> "", path |-> <<>>, dropped |-> ""]

\* what a service call returned: the operation id and the error, with the path
\* of the file it produced and the error of a deferred zip.Writer.Close, which
\* the call does not look at ("" when the Close succeeded)
ReturnDropping(op, id, err, path, dropped) ==
    [op |-> op, id |-> id, err |-> err, path |-> path, dropped |-> dropped]

ReturnAt(op, id, err, path) == ReturnDropping(op, id, err, path, "")

\* the error of a Close that could not write what it had to
CloseError(closeOk) == IF closeOk THEN "" ELSE "close failed"

Return(op, id, err) == ReturnAt(op, id, err, <<>>)

NoResp == [handler |-> "", status |-> 0, id |-> 0, err |-> ""]

\* the JSON answer of a handler: HTTP status, the upload id it names and the
\* error text
Response(handler, status, id, err) ==
    [handler |-> handler, status |-> status, id |-> id, err |-> err]

\* the filesystem before any request: the tenant's directory
InitialFs ==
    [q \in {<<"/">>, <<"/", "h">>, BasePath} |-> DirNode]

\* the services before any request
SvcInit ==
    /\ fs = InitialFs
    /\ progress = <<>>
    /\ nextId = 1
    /\ ups = <<>>
    /\ chunks = <<>>
    /\ scratch = <<>>
    /\ calls = <<>>
    /\ sent = <<>>
    /\ issued = {}
    /\ resp = NoResp
    /\ ret = NoRet
    /\ touched = {}

PathIdle ==
    /\ vpBase = <<>>
    /\ vpReq = <<>>
    /\ vpOut = NoResult

\* no remote descriptor, no session
NoSsh == [remote |-> FALSE, session |-> "none"]

\* what a stream has emitted when it has emitted nothing
Nothing == [Status |-> ""]

\* no subscriber: id is the identifier the stream follows, pc the place of
\* its loop, last what it emitted last, end why it ended, and afterTerminal
\* tells whether it emitted anything after a record with a terminal status
NoStream ==
    [id |-> 0, open |-> FALSE, pc |-> "tick", last |-> Nothing, end |-> "",
     afterTerminal |-> FALSE]

\* the remote server before any request: a directory for the tenant
InitialRfs ==
    [q \in {<<"/">>, <<"/", "h">>, BasePath} |-> DirNode]

\* no request carries a remote descriptor and nobody follows a progress record
FmIdle ==
    /\ rfs = InitialRfs
    /\ ssh = NoSsh
    /\ stream = NoStream
    /\ served = 0

(***************************************************************************)
(* SpecPath: ValidatePath on every root and every short request.           *)
(***************************************************************************)
\* a request: a tenant root and a caller-supplied path, not yet resolved
PathInit ==
    /\ vpBase \in Roots
    /\ vpReq \in PathInputs
    /\ vpOut = NoResult
    /\ SvcInit
    /\ FmIdle

\* the call of ValidatePath that a service makes on the request
ValidatePathCall ==
    /\ vpOut = NoResult
    /\ vpOut' = ValidatePath(vpBase, vpReq)
    /\ UNCHANGED <<vpBase, vpReq>>
    /\ UNCHANGED <<svcVars, fmVars>>

PathNext == ValidatePathCall

SpecPath == PathInit /\ [][PathNext]_vars

(***************************************************************************)
(* SpecRel: ValidatePath, then GetRelativePath on the path it returned.    *)
(***************************************************************************)
\* the call of GetRelativePath that a service makes on a resolved path
GetRelativePathCall ==
    /\ vpOut # NoResult
    /\ vpOut.err = ErrNone
    /\ ret = NoRet
    /\ LET r == GetRelativePath(vpBase, vpOut.path)
       IN  ret' = ReturnAt("GetRelativePath", 0, r.err, r.path)
    /\ UNCHANGED <<pathVars, fs, progress, nextId, ups, chunkVars, touched, fmVars>>

RelNext == ValidatePathCall \/ GetRelativePathCall

SpecRel == PathInit /\ [][RelNext]_vars

(***************************************************************************)
(* SpecUnique: GenerateUniqueName on a tenant root that holds any of the   *)
(* names the loop may come to look at.                                     *)
(***************************************************************************)
\* the names that may lie in the root: two stems, with and without an
\* extension, and their first suffixed names
UniqueNames ==
    { <<"f", ".", "a">>, <<"f", "_", "1", ".", "a">>, <<"f", "_", "2", ".", "a">>,
      <<"f", "_", "3", ".", "a">>, <<"n">>, <<"n", "_", "1">>, <<"n", "_", "2">> }

\* the root with a file for each name of names
RootWith(names) ==
    [q \in DOMAIN InitialFs \cup {Join(BasePath, name) : name \in names} |->
        IF q \in DOMAIN InitialFs THEN DirNode ELSE FileNode(<<>>)]

UniqueInit ==
    /\ PathIdle
    /\ FmIdle
    /\ \E names \in SUBSET UniqueNames : fs = RootWith(names)
    /\ progress = <<>>
    /\ nextId = 1
    /\ ups = <<>>
    /\ chunks = <<>>
    /\ scratch = <<>>
    /\ calls = <<>>
    /\ sent = <<>>
    /\ issued = {}
    /\ resp = NoResp
    /\ ret = NoRet
    /\ touched = {}

\* a call of GenerateUniqueName on path
GenerateUniqueNameCall(path) ==
    /\ vpOut = NoResult
    /\ vpReq' = path
    /\ vpOut' = [path |-> GenerateUniqueName(fs, path), err |-> ErrNone]
    /\ UNCHANGED <<vpBase, svcVars, fmVars>>

UniqueNext ==
    \E name \in {<<"f", ".", "a">>, <<"n">>, <<"f", "_", "1", ".", "a">>} :
        GenerateUniqueNameCall(Join(BasePath, name))

SpecUnique == UniqueInit /\ [][UniqueNext]_vars

(***************************************************************************)
(* UploadService.Upload, in the steps between which other requests run.    *)
(***************************************************************************)
\* file names and destinations that requests carry
Filenames == {<<"f">>, <<".", ".", "/", "f">>}
Destinations == {<<>>, <<"d">>, <<".", ".", "/", "a", "b">>}

\* a map without key k
Without(map, k) == [q \in DOMAIN map \ {k} |-> map[q]]

\* n bytes of the stream of upload id: every byte carries the id
Bytes(id, n) == [i \in 1..n |-> id]

\* bytes appended to the file at path, if it is still a file
AppendData(files, path, bytes) ==
    IF PathExists(files, path) /\ files[path].kind = "file"
    THEN [files EXCEPT ![path] = FileNode(files[path].data \o bytes)]
    ELSE files

\* Upload up to the registration of the progress record (lines 220-250)
UploadStart(filename, destination, length, size, mkdirOk) ==
    /\ LET v == ValidatePath(BasePath, destination)
       IN  IF v.err # ErrNone
           THEN /\ ret' = Return("Upload", 0, v.err)
                /\ touched' = {}
                /\ UNCHANGED <<fs, progress, nextId, ups>>
           ELSE IF MkdirAllFails(fs, v.path, mkdirOk)
           THEN /\ ret' = Return("Upload", 0, "mkdir failed")
                /\ touched' = {v.path}
                /\ UNCHANGED <<fs, progress, nextId, ups>>
           ELSE LET made     == MkdirAll(fs, v.path)
                    joined   == Join(v.path, filename)
                    fullPath == IF PathExists(made, joined)
                                THEN GenerateUniqueName(made, joined)
                                ELSE joined
                IN  /\ fs' = made
                    /\ progress' = StoreSet(progress, nextId,
                                       NewProgress(Base(fullPath), size, StatusUploading))
                    /\ nextId' = nextId + 1
                    /\ ups' = [k \in DOMAIN ups \cup {nextId} |->
                                 IF k = nextId
                                 THEN [pc |-> "create", path |-> fullPath, rest |-> length,
                                       written |-> 0, deltas |-> <<>>]
                                 ELSE ups[k]]
                    /\ ret' = NoRet
                    /\ touched' = {v.path, fullPath}
    /\ UNCHANGED <<pathVars, chunkVars, fmVars>>

\* os.Create of the destination file (lines 253-257)
UploadCreate(id, createOk) ==
    /\ id \in DOMAIN ups
    /\ ups[id].pc = "create"
    /\ touched' = {ups[id].path}
    /\ IF createOk /\ CanCreate(fs, ups[id].path)
       THEN /\ fs' = WriteNode(fs, ups[id].path, FileNode(<<>>))
            /\ ups' = [ups EXCEPT ![id].pc = "copy"]
            /\ ret' = NoRet
            /\ UNCHANGED progress
       ELSE /\ progress' = UpdateProgressError(progress, id, "create failed")
            /\ ups' = Without(ups, id)
            /\ ret' = Return("Upload", id, "create failed")
            /\ UNCHANGED fs
    /\ UNCHANGED <<nextId, pathVars, chunkVars, fmVars>>

\* one Write of io.CopyBuffer through the ProgressWriter (lines 269-275)
UploadWrite(id, n) ==
    /\ id \in DOMAIN ups
    /\ ups[id].pc = "copy"
    /\ n \in 1..ups[id].rest
    /\ LET written == ProgressWriterWrite(ups[id].written, n)
       IN  /\ fs' = AppendData(fs, ups[id].path, Bytes(id, n))
           /\ ups' = [ups EXCEPT ![id].rest = @ - n,
                                 ![id].written = written,
                                 ![id].deltas = Append(@, n)]
           /\ progress' = StoreUpdate(progress, id, written)
    /\ ret' = NoRet
    /\ touched' = {ups[id].path}
    /\ UNCHANGED <<nextId, pathVars, chunkVars, fmVars>>

\* the copy ends with a read or write error (lines 276-279)
UploadCopyError(id) ==
    /\ id \in DOMAIN ups
    /\ ups[id].pc = "copy"
    /\ progress' = UpdateProgressError(progress, id, "copy failed")
    /\ ups' = Without(ups, id)
    /\ ret' = Return("Upload", id, "copy failed")
    /\ touched' = {}
    /\ UNCHANGED <<fs, nextId, pathVars, chunkVars, fmVars>>

\* the stream is exhausted: owner, completion mark, return (lines 281-287);
\* what setOwner returns is dropped
UploadFinish(id, chownOk) ==
    /\ id \in DOMAIN ups
    /\ ups[id].pc = "copy"
    /\ ups[id].rest = 0
    /\ progress' = UpdateProgressCompleted(progress, id)
    /\ ups' = Without(ups, id)
    /\ ret' = ReturnAt("Upload", id, ErrNone, ups[id].path)
    /\ touched' = {ups[id].path}
    /\ UNCHANGED <<fs, nextId, pathVars, chunkVars, fmVars>>

\* the size an Upload call is given: the Content-Length of its request, which
\* is 0 or negative when the request does not declare the length of its body
Sizes == {-1, 0, MaxStream}

\* an Upload call starts, with inputs from the given sets
UploadStarts(filenames, destinations) ==
    \E filename \in filenames, destination \in destinations,
       length \in 0..MaxStream, size \in Sizes, mkdirOk \in BOOLEAN :
        UploadStart(filename, destination, length, size, mkdirOk)

\* an Upload call in flight takes its next step
UploadSteps ==
    \/ \E id \in DOMAIN ups, createOk \in BOOLEAN : UploadCreate(id, createOk)
    \/ \E id \in DOMAIN ups, n \in 1..MaxStream : UploadWrite(id, n)
    \/ \E id \in DOMAIN ups : UploadCopyError(id)
    \/ \E id \in DOMAIN ups, chownOk \in BOOLEAN : UploadFinish(id, chownOk)

(***************************************************************************)
(* SpecUpload: Upload calls of concurrent requests, in any interleaving.   *)
(***************************************************************************)
UploadInit == PathIdle /\ SvcInit /\ FmIdle

UploadNext ==
    \/ nextId <= MaxUploads /\ UploadStarts({<<"f">>}, {<<>>})
    \/ UploadSteps

SpecUpload == UploadInit /\ [][UploadNext]_vars

(***************************************************************************)
(* UploadService: the chunked upload (InitChunkedUpload, UploadChunk,      *)
(* finalizeChunkedUpload) and its handler, UploadHandler.ChunkedUpload.    *)
(***************************************************************************)
ErrNotFound == "file or folder not found"

\* Go's integer division, which truncates toward zero (b # 0)
TruncDiv(a, b) ==
    LET q == (IF a < 0 THEN 0 - a ELSE a) \div (IF b < 0 THEN 0 - b ELSE b)
    IN  IF (a < 0) = (b < 0) THEN q ELSE 0 - q

\* totalChunks of InitChunkedUpload (line 298)
TotalChunksOf(totalSize, chunkSize) ==
    TruncDiv(totalSize + chunkSize - 1, chunkSize)

\* string(rune('0' + chunkIndex)), as the code point of the one-rune name: a
\* surrogate or a value outside Unicode converts to U+FFFD
ChunkFileName(chunkIndex) ==
    LET r == 48 + chunkIndex
    IN  IF r < 0 \/ r > 1114111 \/ r \in 55296..57343 THEN 65533 ELSE r

\* os.WriteFile can write filepath.Join(TempDir, name): the names "." and "/"
\* join to TempDir itself, and a NUL is no file name
ChunkNameWritable(name) == name \notin {0, 46, 47}

\* the chunk store of a service that NewUploadService has just built
NewChunkStore == <<>>

\* the sequence f, held as a tuple
AsSeq(f) == f \o <<>>

\* A long list indexed from 1 is held as a list of pages of PageSize entries
\* each; an entry that was never set reads as the list's default.
PageSize == 16 * 16

\* the page and the slot on it of entry i
PageOf(i) == ((i - 1) \div PageSize) + 1
SlotOf(i) == ((i - 1) % PageSize) + 1

\* entry i of a paged list
PagedGet(pages, i, default) ==
    IF i < 1 \/ PageOf(i) > Len(pages) THEN default ELSE pages[PageOf(i)][SlotOf(i)]

\* a paged list with entry i set to v
PagedSet(pages, i, v, default) ==
    LET grown == pages \o [p \in 1..(PageOf(i) - Len(pages)) |->
                              AsSeq([k \in 1..PageSize |-> default])]
    IN  [grown EXCEPT ![PageOf(i)][SlotOf(i)] = v]

\* the number of entries of a paged list that differ from the default
PagedCount(pages, default) ==
    Cardinality({q \in (1..Len(pages)) \X (1..PageSize) : pages[q[1]][q[2]] # default})

\* the paged list whose entries 1..n are Entry(1), ..., Entry(n)
PagedOf(n, Entry(_), default) ==
    AsSeq([p \in 1..PageOf(n) |->
              AsSeq([k \in 1..PageSize |->
                        LET i == (p - 1) * PageSize + k
                        IN  IF i <= n THEN Entry(i) ELSE default])])

\* a name of the scratch directory under which no file is stored
NoFile == <<-1>>

\* an empty scratch directory; a directory is a paged list indexed by the code
\* point of the one-rune file name
EmptyDir == <<>>

\* the file stored under a name of a scratch directory, or NoFile
ReadScratch(dir, name) == PagedGet(dir, name, NoFile)

\* os.WriteFile of data under a name of a scratch directory
WriteScratch(dir, name, data) == PagedSet(dir, name, data, NoFile)

\* Chunks of a session, map[int]bool: a paged list that holds TRUE at
\* chunkIndex + 1 for each key chunkIndex
NoChunks == <<>>

\* chunk.Chunks[chunkIndex] = true
MarkChunk(marks, chunkIndex) == PagedSet(marks, chunkIndex + 1, TRUE, FALSE)

\* len(chunk.Chunks)
CountChunks(marks) == PagedCount(marks, FALSE)

\* the ghost record of submissions after n bytes were submitted for chunkIndex:
\* a paged list that holds at chunkIndex + 1 the payload lengths submitted
RecordSent(log, chunkIndex, n) ==
    PagedSet(log, chunkIndex + 1, Append(PagedGet(log, chunkIndex + 1, <<>>), n), <<>>)

\* the payload lengths submitted for chunkIndex
SentFor(log, chunkIndex) == PagedGet(log, chunkIndex + 1, <<>>)

\* the ChunkUpload that InitChunkedUpload builds
NewSession(id, filename, destPath, totalSize, chunkSize) ==
    [Filename |-> filename, Destination |-> destPath, TotalSize |-> totalSize,
     ChunkSize |-> chunkSize, TotalChunks |-> TotalChunksOf(totalSize, chunkSize),
     Chunks |-> NoChunks, TempDir |-> id]

\* map with key k set to v
Put(map, k, v) == [q \in DOMAIN map \cup {k} |-> IF q = k THEN v ELSE map[q]]

RECURSIVE ConcatFrom(_, _)
ConcatFrom(seqs, i) ==
    IF i > Len(seqs) THEN <<>> ELSE seqs[i] \o ConcatFrom(seqs, i + 1)

\* the byte sequences of seqs one after another (computed without recursion
\* when each holds one byte)
Concat(seqs) ==
    IF \A i \in 1..Len(seqs) : Len(seqs[i]) = 1
    THEN AsSeq([i \in 1..Len(seqs) |-> seqs[i][1]])
    ELSE ConcatFrom(seqs, 1)

\* the payload a client submits for a chunk index: n bytes that carry the index
Payload(chunkIndex, n) == [i \in 1..n |-> chunkIndex + 1]

\* uploadedBytes of UploadChunk (lines 356-359)
ChunkUploadedBytes(uploadedChunks, sess) ==
    LET bytes == uploadedChunks * sess.ChunkSize
    IN  IF bytes > sess.TotalSize THEN sess.TotalSize ELSE bytes

\* finalizeChunkedUpload from the creation of the directory on (lines
\* 387-420), for the path finalPath of the final file
FinalizeAt(prog, id, sess, finalPath, createOk, mkdirOk) ==
    LET made      == MkdirAll(fs, Dir(finalPath))
        files     == IF id \in DOMAIN scratch THEN scratch[id] ELSE EmptyDir
        missing   == {i \in 0..(sess.TotalChunks - 1) :
                          ReadScratch(files, ChunkFileName(i)) = NoFile}
        upTo      == IF missing = {} THEN sess.TotalChunks
                     ELSE CHOOSE i \in missing : \A j \in missing : i <= j
        data      == Concat(AsSeq([i \in 1..upTo |->
                                          ReadScratch(files, ChunkFileName(i - 1))]))
    IN  IF MkdirAllFails(fs, Dir(finalPath), mkdirOk)
        THEN [fs |-> fs, scratch |-> scratch, path |-> finalPath, err |-> "mkdir failed",
              progress |-> UpdateProgressError(prog, id, "mkdir failed")]
        ELSE IF ~(createOk /\ CanCreate(made, finalPath))
        THEN [fs |-> made, scratch |-> scratch, path |-> finalPath, err |-> "create failed",
              progress |-> UpdateProgressError(prog, id, "create failed")]
        ELSE IF missing # {}
        THEN [fs |-> WriteNode(made, finalPath, FileNode(data)), scratch |-> scratch,
              path |-> finalPath, err |-> "read failed",
              progress |-> UpdateProgressError(prog, id, "read failed")]
        ELSE [fs |-> WriteNode(made, finalPath, FileNode(data)),
              scratch |-> Without(scratch, id), path |-> finalPath, err |-> ErrNone,
              progress |-> UpdateProgressCompleted(prog, id)]

\* the path of the final file (lines 382-385) for the joined destination and
\* file name
FinalPath(joined) ==
    IF PathExists(fs, joined) THEN GenerateUniqueName(fs, joined) ELSE joined

\* finalizeChunkedUpload after the session has been taken out of the store
\* (lines 381-420): the filesystem, the scratch files and the progress store
\* it leaves, the error it returns and the path of the final file
Finalize(prog, id, sess, createOk, mkdirOk) ==
    FinalizeAt(prog, id, sess, FinalPath(Join(sess.Destination, sess.Filename)),
               createOk, mkdirOk)

\* the store of the service a call runs on: the long-lived service's, or the
\* store of the service its handler built for the request
StoreOf(call) == IF call.via = "handler" THEN call.local ELSE chunks

\* the run-time panic of the division of line 298 by a chunkSize of 0, which
\* ends the call before anything is stored
ErrDivideByZero == "runtime error: integer divide by zero"

\* InitChunkedUpload (lines 291-332) on a service whose chunk store is the
\* long-lived one (via = "service") or one built for the request
InitChunkedUploadOn(via, filename, destination, totalSize, chunkSize, mkdirOk) ==
    LET v  == ValidatePath(BasePath, destination)
        id == nextId
    IN  IF v.err # ErrNone
        THEN /\ ret' = Return("InitChunkedUpload", 0, v.err)
             /\ resp' = IF via = "handler"
                        THEN Response("ChunkedUpload", 500, 0, v.err) ELSE NoResp
             /\ UNCHANGED <<progress, nextId, chunks, scratch, sent, issued>>
        ELSE IF chunkSize = 0
        THEN /\ ret' = Return("InitChunkedUpload", 0, ErrDivideByZero)
             /\ resp' = IF via = "handler"
                        THEN Response("ChunkedUpload", 500, 0, ErrDivideByZero) ELSE NoResp
             /\ nextId' = nextId + 1
             /\ UNCHANGED <<progress, chunks, scratch, sent, issued>>
        ELSE IF ~mkdirOk
        THEN /\ ret' = Return("InitChunkedUpload", 0, "mkdir failed")
             /\ resp' = IF via = "handler"
                        THEN Response("ChunkedUpload", 500, 0, "mkdir failed") ELSE NoResp
             /\ nextId' = nextId + 1
             /\ UNCHANGED <<progress, chunks, scratch, sent, issued>>
        ELSE /\ chunks' = IF via = "handler" THEN chunks
                          ELSE Put(chunks, id,
                                   NewSession(id, filename, v.path, totalSize, chunkSize))
             /\ scratch' = Put(scratch, id, EmptyDir)
             /\ sent' = Put(sent, id, <<>>)
             /\ issued' = IF via = "handler" THEN issued \cup {id} ELSE issued
             /\ progress' = StoreSet(progress, id,
                                NewProgress(filename, totalSize, StatusPending))
             /\ nextId' = nextId + 1
             /\ ret' = Return("InitChunkedUpload", id, ErrNone)
             /\ resp' = IF via = "handler"
                        THEN Response("ChunkedUpload", 200, id, "") ELSE NoResp

\* InitChunkedUpload called on the long-lived service
InitChunkedUpload(filename, destination, totalSize, chunkSize, mkdirOk) ==
    /\ InitChunkedUploadOn("service", filename, destination, totalSize, chunkSize, mkdirOk)
    /\ touched' = {}
    /\ UNCHANGED <<fs, ups, calls, pathVars, fmVars>>

\* UploadHandler.ChunkedUpload with action = "init" (lines 144-180), on the
\* service that getUploadService builds for the request
ChunkedUploadInit(filename, destination, totalSize, chunkSize, mkdirOk) ==
    /\ IF filename = <<>> \/ totalSize = 0
       THEN /\ resp' = Response("ChunkedUpload", 400, 0, "INVALID_PARAMS")
            /\ UNCHANGED <<progress, nextId, chunks, scratch, sent, issued, ret>>
       ELSE InitChunkedUploadOn("handler", filename, destination, totalSize,
                                chunkSize, mkdirOk)
    /\ touched' = {}
    /\ UNCHANGED <<fs, ups, calls, pathVars, fmVars>>

\* the free caller with the least number
FreeCaller == CHOOSE c \in 1..MaxCallers \ DOMAIN calls :
                  \A d \in 1..MaxCallers \ DOMAIN calls : c <= d

\* a call of UploadChunk up to the count of received chunks (lines 336-353),
\* on the store of the service it runs on
ChunkBegin(via, local, uploadID, chunkIndex, n, writeOk) ==
    LET store == IF via = "handler" THEN local ELSE chunks
        name  == ChunkFileName(chunkIndex)
    IN  IF uploadID \notin DOMAIN store
        THEN /\ ret' = Return("UploadChunk", uploadID, ErrNotFound)
             /\ resp' = IF via = "handler"
                        THEN Response("ChunkedUpload", 500, uploadID, ErrNotFound)
                        ELSE NoResp
             /\ UNCHANGED <<chunks, scratch, calls, sent>>
        ELSE IF ~(writeOk /\ ChunkNameWritable(name) /\ uploadID \in DOMAIN scratch)
        THEN /\ ret' = Return("UploadChunk", uploadID, "write failed")
             /\ resp' = IF via = "handler"
                        THEN Response("ChunkedUpload", 500, uploadID, "write failed")
                        ELSE NoResp
             /\ UNCHANGED <<chunks, scratch, calls, sent>>
        ELSE LET marked == [store EXCEPT ![uploadID].Chunks = MarkChunk(@, chunkIndex)]
             IN  /\ scratch' = [scratch EXCEPT ![uploadID] =
                                   WriteScratch(@, name, Payload(chunkIndex, n))]
                 /\ sent' = [sent EXCEPT ![uploadID] = RecordSent(@, chunkIndex, n)]
                 /\ chunks' = IF via = "handler" THEN chunks ELSE marked
                 /\ calls' = Put(calls, FreeCaller,
                                 [id |-> uploadID, via |-> via,
                                  local |-> IF via = "handler" THEN marked ELSE <<>>,
                                  sess |-> [TotalSize |-> marked[uploadID].TotalSize,
                                            ChunkSize |-> marked[uploadID].ChunkSize,
                                            TotalChunks |-> marked[uploadID].TotalChunks],
                                  uploadedChunks |-> CountChunks(marked[uploadID].Chunks)])
                 /\ ret' = NoRet
                 /\ resp' = NoResp

\* UploadChunk called on the long-lived service
UploadChunkBegin(uploadID, chunkIndex, n, writeOk) ==
    /\ DOMAIN calls # 1..MaxCallers
    /\ ChunkBegin("service", <<>>, uploadID, chunkIndex, n, writeOk)
    /\ touched' = {}
    /\ UNCHANGED <<fs, progress, nextId, ups, issued, pathVars, fmVars>>

\* the return of UploadChunk when finalizeChunkedUpload left the session in the
\* store (line 378 dropped)
FinalizedKeeping(call, id, out) ==
    /\ chunks' = chunks
    /\ fs' = out.fs
    /\ scratch' = out.scratch
    /\ progress' = out.progress
    /\ ret' = ReturnAt("finalizeChunkedUpload", id, out.err, out.path)
    /\ resp' = NoResp
    /\ touched' = {out.path}

\* the return of UploadChunk with what finalizeChunkedUpload left (line 364)
Finalized(call, id, out) ==
    /\ chunks' = IF call.via = "handler" THEN chunks ELSE Without(chunks, id)
    /\ fs' = out.fs
    /\ scratch' = out.scratch
    /\ progress' = out.progress
    /\ ret' = ReturnAt("finalizeChunkedUpload", id, out.err, out.path)
    /\ resp' = IF call.via = "handler"
               THEN Response("ChunkedUpload",
                             IF out.err = ErrNone THEN 200 ELSE 500, id,
                             IF out.err = ErrNone THEN "" ELSE out.err)
               ELSE NoResp
    /\ touched' = {out.path}

\* the rest of UploadChunk (lines 355-368): the progress update and, when the
\* count has reached TotalChunks, finalizeChunkedUpload (lines 371-421)
UploadChunkEnd(c, createOk, mkdirOk) ==
    /\ c \in DOMAIN calls
    /\ LET call    == calls[c]
           id      == call.id
           updated == StoreUpdate(progress, id,
                                  ChunkUploadedBytes(call.uploadedChunks, call.sess))
           store   == StoreOf(call)
       IN  IF call.uploadedChunks # call.sess.TotalChunks
           THEN /\ progress' = updated
                /\ ret' = Return("UploadChunk", id, ErrNone)
                /\ resp' = IF call.via = "handler"
                           THEN Response("ChunkedUpload", 200, id, "")
                           ELSE NoResp
                /\ touched' = {}
                /\ UNCHANGED <<fs, chunks, scratch>>
           ELSE IF id \notin DOMAIN store
           THEN /\ progress' = updated
                /\ ret' = Return("finalizeChunkedUpload", id, ErrNotFound)
                /\ resp' = IF call.via = "handler"
                           THEN Response("ChunkedUpload", 500, id, ErrNotFound)
                           ELSE NoResp
                /\ touched' = {}
                /\ UNCHANGED <<fs, chunks, scratch>>
           ELSE Finalized(call, id,
                          Finalize(updated, id, store[id], createOk, mkdirOk))
    /\ calls' = Without(calls, c)
    /\ UNCHANGED <<nextId, ups, sent, issued, pathVars, fmVars>>

\* UploadHandler.ChunkedUpload with action = "upload" (lines 182-225): the
\* call of UploadChunk on the service that getUploadService builds
ChunkedUploadChunk(uploadID, chunkIndex, n, writeOk) ==
    /\ DOMAIN calls # 1..MaxCallers
    /\ ChunkBegin("handler", NewChunkStore, uploadID, chunkIndex, n, writeOk)
    /\ touched' = {}
    /\ UNCHANGED <<fs, progress, nextId, ups, issued, pathVars, fmVars>>

(***************************************************************************)
(* SpecChunk: chunk sessions of a few chunks, through the handler and on   *)
(* one service that lives across the calls.                                *)
(***************************************************************************)
ChunkInit == PathIdle /\ SvcInit /\ FmIdle

\* the (totalSize, chunkSize) pairs of the sessions of SpecChunk
ChunkShapes == {<<2, 1>>, <<3, 2>>}

\* the chunk payloads stored so far, over all sessions
Submitted ==
    LET RECURSIVE Count(_)
        Count(pairs) ==
            IF pairs = {} THEN 0
            ELSE LET q == CHOOSE x \in pairs : TRUE
                 IN  Len(SentFor(sent[q[1]], q[2])) + Count(pairs \ {q})
    IN  Count((DOMAIN sent) \X (0..1))

ChunkNext ==
    \/ /\ nextId <= MaxSessions
       /\ \E shape \in ChunkShapes, mkdirOk \in BOOLEAN :
              InitChunkedUpload(<<"f">>, <<>>, shape[1], shape[2], mkdirOk)
    \/ /\ nextId <= MaxSessions
       /\ \E filename \in {<<>>, <<"f">>}, shape \in ChunkShapes :
              ChunkedUploadInit(filename, <<>>, shape[1], shape[2], TRUE)
    \/ /\ Submitted < MaxSubmits
       /\ \E uploadID \in 1..(nextId - 1), chunkIndex \in 0..1, writeOk \in BOOLEAN :
              UploadChunkBegin(uploadID, chunkIndex, 1, writeOk)
    \/ \E c \in DOMAIN calls, createOk \in BOOLEAN :
           UploadChunkEnd(c, createOk, TRUE)
    \/ \E uploadID \in 1..(nextId - 1), chunkIndex \in 0..1 :
           ChunkedUploadChunk(uploadID, chunkIndex, 1, TRUE)

SpecChunk == ChunkInit /\ [][ChunkNext]_vars

(***************************************************************************)
(* SpecChunkInit: the init requests of the chunked upload with the sizes a *)
(* request can carry, through the handler and on the service.              *)
(***************************************************************************)
\* the total_size values of the init requests
InitTotals == {-1, 0, 1, 3}

\* the chunk_size values of the init requests; a chunk_size that does not
\* parse reaches the service as 0
InitChunkSizes == {-1, 0, 1, 2}

InitNext ==
    \/ /\ nextId <= MaxSessions
       /\ \E totalSize \in InitTotals, chunkSize \in InitChunkSizes, mkdirOk \in BOOLEAN :
              InitChunkedUpload(<<"f">>, <<>>, totalSize, chunkSize, mkdirOk)
    \/ /\ nextId <= MaxSessions
       /\ \E filename \in {<<>>, <<"f">>}, totalSize \in InitTotals,
             chunkSize \in InitChunkSizes :
              ChunkedUploadInit(filename, <<>>, totalSize, chunkSize, TRUE)

SpecChunkInit == ChunkInit /\ [][InitNext]_vars

(***************************************************************************)
(* SpecChunkIndex: one session of two one-byte chunks on one service that  *)
(* lives across the calls, with the chunk indexes a request can carry      *)
(* below and at the chunk count.                                           *)
(***************************************************************************)
\* the largest chunk_index of the requests of SpecChunkIndex
MaxChunkIndex == 2

\* the chunk payloads stored so far with an index up to MaxChunkIndex
IndexSubmitted ==
    LET RECURSIVE Count(_)
        Count(pairs) ==
            IF pairs = {} THEN 0
            ELSE LET q == CHOOSE x \in pairs : TRUE
                 IN  Len(SentFor(sent[q[1]], q[2])) + Count(pairs \ {q})
    IN  Count((DOMAIN sent) \X (0..MaxChunkIndex))

IndexNext ==
    \/ /\ nextId <= MaxSessions
       /\ \E mkdirOk \in BOOLEAN :
              InitChunkedUpload(<<"f">>, <<>>, 2, 1, mkdirOk)
    \/ /\ IndexSubmitted < MaxSubmits
       /\ \E uploadID \in 1..(nextId - 1), chunkIndex \in 0..MaxChunkIndex, writeOk \in BOOLEAN :
              UploadChunkBegin(uploadID, chunkIndex, 1, writeOk)
    \/ \E c \in DOMAIN calls, createOk \in BOOLEAN :
           UploadChunkEnd(c, createOk, TRUE)

SpecChunkIndex == ChunkInit /\ [][IndexNext]_vars

(***************************************************************************)
(* SpecChunkLarge: the last chunks of one session of many one-byte chunks, *)
(* on one service that lives across the calls.  It starts in the state     *)
(* that InitChunkedUpload and one UploadChunk call for each of the indexes *)
(* before the last LastChunks leave behind.                                *)
(***************************************************************************)
\* the chunk counts of the session of SpecChunkLarge
LargeTotals == {55249, 55250}

\* the session that InitChunkedUpload opened, with the chunks 0..(upTo - 1) marked
LargeSession(total, upTo) ==
    LET Marked(i) == TRUE
    IN  [NewSession(1, <<"f">>, BasePath, total, 1) EXCEPT
            !.Chunks = PagedOf(upTo, Marked, FALSE)]

LargeInit ==
    /\ PathIdle
    /\ FmIdle
    /\ \E total \in LargeTotals :
          LET upTo == total - LastChunks
              Stored(name) == IF name < ChunkFileName(0) THEN NoFile
                              ELSE Payload(name - ChunkFileName(0), 1)
              Once(i) == <<1>>
          IN  /\ chunks = 1 :> LargeSession(total, upTo)
              /\ scratch = 1 :> PagedOf(ChunkFileName(upTo - 1), Stored, NoFile)
              /\ sent = 1 :> PagedOf(upTo, Once, <<>>)
              /\ progress = StoreUpdate(
                                StoreSet(<<>>, 1, NewProgress(<<"f">>, total, StatusPending)),
                                1, ChunkUploadedBytes(upTo, LargeSession(total, upTo)))
    /\ fs = InitialFs
    /\ nextId = 2
    /\ ups = <<>>
    /\ calls = <<>>
    /\ issued = {}
    /\ resp = NoResp
    /\ ret = NoRet
    /\ touched = {}

LargeNext ==
    \/ \E chunkIndex \in (progress[1].TotalBytes - LastChunks)..(progress[1].TotalBytes - 1),
          writeOk \in BOOLEAN :
           /\ SentFor(sent[1], chunkIndex) = <<>>
           /\ UploadChunkBegin(1, chunkIndex, 1, writeOk)
    \/ \E c \in DOMAIN calls, createOk \in BOOLEAN :
           UploadChunkEnd(c, createOk, TRUE)

SpecChunkLarge == LargeInit /\ [][LargeNext]_vars

(***************************************************************************)
(* ExtractService: Extract and extractFile.                                *)
(***************************************************************************)
\* an entry of a ZIP archive: its name as stored, whether it is a directory,
\* and its uncompressed bytes
ZipEntry(name, isDir, data) == [Name |-> name, IsDir |-> isDir, Data |-> data]

\* the sum of UncompressedSize64 over the entries (lines 72-75)
RECURSIVE ZipTotalSize(_)
ZipTotalSize(entries) ==
    IF entries = <<>> THEN 0 ELSE Len(entries[1].Data) + ZipTotalSize(Tail(entries))

\* the check without the separator after the destination
EntryAllowedByString(filePath, destPath) == HasPrefix(filePath, Clean(destPath))

\* the security check of extractFile (line 126)
EntryAllowed(filePath, destPath) ==
    HasPrefix(filePath, Clean(destPath) \o <<"/">>)

\* the record after the copy loop has counted newVal bytes (lines 168-174)
ExtractProgress(store, id, newVal, totalSize) ==
    IF totalSize > 0 /\ id \in DOMAIN store
    THEN [store EXCEPT ![id] = [@ EXCEPT !.Progress = Percent(newVal, totalSize),
                                         !.UploadedBytes = newVal]]
    ELSE store

\* extractFile from the security check on (lines 126-186), for the path
\* filePath built for entry f
ExtractFileAt(files, store, id, f, destPath, filePath, extracted, totalSize, ioOk, chownOk) ==
    LET parent   == Dir(filePath)
        made     == MkdirAll(files, parent)
        newVal   == extracted + Len(f.Data)
        out(fl, st, n, err) ==
            [fs |-> fl, progress |-> st, extracted |-> n, err |-> err, path |-> filePath]
    IN  IF ~EntryAllowed(filePath, destPath)
        THEN out(files, store, extracted, ErrPathTraversal)
        ELSE IF f.IsDir
        THEN IF MkdirAllFails(files, filePath, ioOk)
             THEN out(files, store, extracted, "mkdir failed")
             ELSE out(MkdirAll(files, filePath), store, extracted,
                      IF chownOk THEN ErrNone ELSE "chown failed")
        ELSE IF MkdirAllFails(files, parent, ioOk)
        THEN out(files, store, extracted, "mkdir failed")
        ELSE IF ~(ioOk /\ CanCreate(made, filePath))
        THEN out(made, store, extracted, "open failed")
        ELSE out(WriteNode(made, filePath, FileNode(f.Data)),
                 IF Len(f.Data) > 0 THEN ExtractProgress(store, id, newVal, totalSize)
                 ELSE store,
                 newVal, ErrNone)

\* extractFile (lines 121-187) for entry f, with extracted bytes counted so far:
\* the filesystem and progress store it leaves, the count, the error it returns
\* and the path it built
ExtractFile(files, store, id, f, destPath, extracted, totalSize, ioOk, chownOk) ==
    ExtractFileAt(files, store, id, f, destPath, Join(destPath, f.Name), extracted,
                  totalSize, ioOk, chownOk)

RECURSIVE ExtractLoop(_, _, _, _, _, _, _, _, _, _)
RECURSIVE ExtractEntry(_, _, _, _, _, _, _, _)
\* the loop of Extract over the entries from the i-th on (lines 98-105); the
\* system refuses the I/O of entry failAt
ExtractLoop(files, store, id, entries, i, destPath, extracted, used, failAt, chownOk) ==
    IF i > Len(entries)
    THEN [fs |-> files, progress |-> UpdateProgressCompleted(store, id),
          err |-> ErrNone, used |-> used]
    ELSE ExtractEntry(ExtractFile(files, store, id, entries[i], destPath, extracted,
                                  ZipTotalSize(entries), i # failAt, chownOk),
                      id, entries, i, destPath, used, failAt, chownOk)

\* the body of the loop (lines 100-104) once extractFile has returned r for
\* the i-th entry
ExtractEntry(r, id, entries, i, destPath, used, failAt, chownOk) ==
    IF r.err # ErrNone
    THEN [fs |-> r.fs, progress |-> UpdateProgressError(r.progress, id, r.err),
          err |-> r.err, used |-> used \cup {r.path}]
    ELSE ExtractLoop(r.fs, r.progress, id, entries, i + 1, destPath,
                     r.extracted, used \cup {r.path}, failAt, chownOk)

\* a return of Extract before a record is registered
ExtractFail(err, paths) ==
    /\ ret' = Return("Extract", 0, err)
    /\ touched' = paths
    /\ UNCHANGED <<fs, progress, nextId>>

\* the return of Extract after the loop has left r (lines 98-110)
ExtractReturn(sourcePath, destPath, id, r) ==
    /\ fs' = r.fs
    /\ progress' = r.progress
    /\ ret' = ReturnAt("Extract", id, r.err, destPath)
    /\ touched' = {sourcePath, destPath} \cup r.used
    /\ nextId' = nextId + 1

\* Extract once the archive is open and the record set registered (lines
\* 90-110)
ExtractArchive(sourcePath, destPath, id, entries, set, mkdirOk, failAt, chownOk) ==
    IF MkdirAllFails(fs, destPath, mkdirOk)
    THEN /\ progress' = UpdateProgressError(set, id, "mkdir failed")
         /\ ret' = ReturnAt("Extract", id, "mkdir failed", destPath)
         /\ touched' = {sourcePath, destPath}
         /\ nextId' = nextId + 1
         /\ UNCHANGED fs
    ELSE ExtractReturn(sourcePath, destPath, id,
                       ExtractLoop(MkdirAll(fs, destPath), set, id, entries, 1,
                                   destPath, 0, {}, failAt, chownOk))

\* Extract once source and destination went through ValidatePath (lines 51-88)
ExtractResolved(sv, dv, mkdirOk, failAt, chownOk) ==
    IF sv.err # ErrNone THEN ExtractFail(sv.err, {})
    ELSE IF ~PathExists(fs, sv.path) THEN ExtractFail(ErrNotFound, {sv.path})
    ELSE IF dv.err # ErrNone THEN ExtractFail(dv.err, {sv.path})
    ELSE IF fs[sv.path].kind # "zip" THEN ExtractFail("not a zip file", {sv.path})
    ELSE ExtractArchive(sv.path, dv.path, nextId, fs[sv.path].entries,
                        StoreSet(progress, nextId,
                                 NewProgress(Base(sv.path),
                                             ZipTotalSize(fs[sv.path].entries),
                                             StatusProcessing)),
                        mkdirOk, failAt, chownOk)

\* Extract (lines 49-111)
Extract(source, destination, mkdirOk, failAt, chownOk) ==
    /\ ExtractResolved(ValidatePath(BasePath, source),
                       ValidatePath(BasePath, destination), mkdirOk, failAt, chownOk)
    /\ UNCHANGED <<ups, pathVars, chunkVars, fmVars>>

(***************************************************************************)
(* CompressService: Compress, addFileToZip and addDirectoryToZip.          *)
(***************************************************************************)
\* the characters of file names, in byte order
ByteOrder ==
    <<".", "/", "0", "1", "2", "3", "4", "5", "6", "7", "8", "9", "_",
      "a", "b", "c", "d", "e", "f", "g", "h", "i", "j", "k", "l", "m",
      "n", "o", "p", "q", "r", "s", "t", "u", "v", "w", "x", "y", "z">>

ByteRank(c) == CHOOSE i \in 1..Len(ByteOrder) : ByteOrder[i] = c

\* a < b as Go compares strings
RECURSIVE StringLess(_, _)
StringLess(a, b) ==
    IF b = <<>> THEN FALSE
    ELSE IF a = <<>> THEN TRUE
    ELSE IF a[1] # b[1] THEN ByteRank(a[1]) < ByteRank(b[1])
    ELSE StringLess(Tail(a), Tail(b))

\* the entries of directory dir
Children(files, dir) == {q \in DOMAIN files : q # dir /\ Dir(q) = dir}

\* the paths of a set in lexical order of their last element
RECURSIVE InLexicalOrder(_)
InLexicalOrder(paths) ==
    IF paths = {} THEN <<>>
    ELSE LET first == CHOOSE q \in paths :
                          \A r \in paths \ {q} : StringLess(Base(q), Base(r))
         IN  <<first>> \o InLexicalOrder(paths \ {first})

\* filepath.Walk from path: path, then what lies below it, each directory's
\* entries in lexical order
RECURSIVE Walk(_, _)
RECURSIVE WalkAll(_, _, _)
Walk(files, path) ==
    IF IsDir(files, path)
    THEN <<path>> \o WalkAll(files, InLexicalOrder(Children(files, path)), 1)
    ELSE <<path>>

WalkAll(files, paths, i) ==
    IF i > Len(paths) THEN <<>>
    ELSE Walk(files, paths[i]) \o WalkAll(files, paths, i + 1)

\* the bytes of the files of a sequence of paths, added up
RECURSIVE SizeOf(_, _)
SizeOf(files, paths) ==
    IF paths = <<>> THEN 0
    ELSE (IF IsDir(files, paths[1]) THEN 0 ELSE Len(files[paths[1]].data))
         + SizeOf(files, Tail(paths))

\* GetDirectorySize
GetDirectorySize(files, path) == SizeOf(files, Walk(files, path))

\* addDirectoryToZip naming every entry after the last element of its path
RelFlat(dirPath, path) ==
    IF path = dirPath THEN <<".">> ELSE Base(path)

\* filepath.Rel(dirPath, path) for a path that Walk reached from dirPath
Rel(dirPath, path) ==
    IF path = dirPath THEN <<".">> ELSE SubSeq(path, Len(dirPath) + 2, Len(path))

\* the entries that addDirectoryToZip (lines 209-230) or addFileToZip (lines
\* 156-207) writes for one of the valid paths, each with the path it is read from
EntriesOf(files, fullPath) ==
    LET zipPath == Base(fullPath)
        walked  == Walk(files, fullPath)
    IN  IF IsDir(files, fullPath)
        THEN [i \in 1..Len(walked) |->
                 LET entryPath == Join(zipPath, Rel(fullPath, walked[i]))
                 IN  IF IsDir(files, walked[i])
                     THEN [entry |-> ZipEntry(entryPath \o <<"/">>, TRUE, <<>>),
                           from |-> walked[i]]
                     ELSE [entry |-> ZipEntry(entryPath, FALSE, files[walked[i]].data),
                           from |-> walked[i]]]
        ELSE <<[entry |-> ZipEntry(zipPath, FALSE, files[fullPath].data),
                from |-> fullPath]>>

\* Compress gathering its paths as a batch that one bad path fails
ValidPathsStrict(files, paths) ==
    IF \A i \in 1..Len(paths) :
          /\ ValidatePath(BasePath, paths[i]).err = ErrNone
          /\ PathExists(files, ValidatePath(BasePath, paths[i]).path)
    THEN [i \in 1..Len(paths) |-> ValidatePath(BasePath, paths[i]).path]
    ELSE <<>>

\* the paths of the request that resolve and exist, in order (lines 77-95)
RECURSIVE ValidPaths(_, _)
ValidPaths(files, paths) ==
    IF paths = <<>> THEN <<>>
    ELSE LET v == ValidatePath(BasePath, paths[1])
         IN  (IF v.err = ErrNone /\ PathExists(files, v.path) THEN <<v.path>> ELSE <<>>)
             \o ValidPaths(files, Tail(paths))

\* totalSize of Compress (lines 88-94)
RECURSIVE CompressTotalSize(_, _)
CompressTotalSize(files, validPaths) ==
    IF validPaths = <<>> THEN 0
    ELSE (IF IsDir(files, validPaths[1]) THEN GetDirectorySize(files, validPaths[1])
          ELSE Len(files[validPaths[1]].data))
         + CompressTotalSize(files, Tail(validPaths))

\* what the loop of Compress writes, over all valid paths (lines 135-145)
RECURSIVE AllEntries(_, _)
AllEntries(files, validPaths) ==
    IF validPaths = <<>> THEN <<>>
    ELSE EntriesOf(files, validPaths[1]) \o AllEntries(files, Tail(validPaths))

\* the bytes of the first n entries, added up
RECURSIVE EntryBytes(_, _)
EntryBytes(items, n) ==
    IF n = 0 THEN 0 ELSE Len(items[n].entry.Data) + EntryBytes(items, n - 1)

\* the last of the first n entries that holds bytes, or 0
LastWithBytes(items, n) ==
    LET with == {k \in 1..n : Len(items[k].entry.Data) > 0}
    IN  IF with = {} THEN 0 ELSE CHOOSE k \in with : \A j \in with : j <= k

\* a ZIP file whose central directory was not written: no archive can be read
\* from it
TruncatedZip == FileNode(<<>>)

\* a return of Compress before a record is registered
CompressFail(files, err, used) ==
    /\ ret' = Return("Compress", 0, err)
    /\ touched' = used
    /\ fs' = files
    /\ UNCHANGED <<progress, nextId>>

\* the record after the first upTo entries were added (lines 184-197)
CompressCounted(set, id, items, upTo, totalSize) ==
    LET last == LastWithBytes(items, upTo)
    IN  IF last = 0 THEN set
        ELSE ExtractProgress(set, id, EntryBytes(items, last), totalSize)

\* the archive that holds the first upTo entries
CompressArchive(items, upTo) == ZipNode([k \in 1..upTo |-> items[k].entry])

\* lines 113-153: the archive is created, the entries are added up to the one
\* the system refuses, the record is marked, and the deferred Close calls run
CompressEntries(made, outputPath, id, set, items, totalSize, upTo, used, createOk, closeOk) ==
    IF ~(createOk /\ CanCreate(made, outputPath))
    THEN /\ progress' = UpdateProgressError(set, id, "create failed")
         /\ ret' = ReturnAt("Compress", id, "create failed", outputPath)
         /\ fs' = made
         /\ touched' = used
         /\ nextId' = nextId + 1
    ELSE IF upTo < Len(items)
    THEN /\ progress' = UpdateProgressError(
                            CompressCounted(set, id, items, upTo, totalSize),
                            id, "add failed")
         /\ ret' = ReturnAt("Compress", id, "add failed", outputPath)
         /\ fs' = WriteNode(made, outputPath, CompressArchive(items, upTo))
         /\ touched' = used
         /\ nextId' = nextId + 1
    ELSE /\ progress' = UpdateProgressCompleted(
                            CompressCounted(set, id, items, upTo, totalSize), id)
         /\ ret' = ReturnDropping("Compress", id, ErrNone, outputPath,
                                  CloseError(closeOk))
         /\ fs' = WriteNode(made, outputPath,
                            IF closeOk THEN CompressArchive(items, upTo)
                            ELSE TruncatedZip)
         /\ touched' = used
         /\ nextId' = nextId + 1

\* lines 101-110: the record is registered with the total size
CompressRegistered(made, outputPath, id, validPaths, totalSize, items, used, createOk, failAt, closeOk) ==
    CompressEntries(made, outputPath, id,
                    StoreSet(progress, id,
                             NewProgress(Base(outputPath), totalSize,
                                         StatusProcessing)),
                    items, totalSize,
                    IF failAt \in 1..Len(items) THEN failAt - 1 ELSE Len(items),
                    used \cup {validPaths[k] : k \in 1..Len(validPaths)}
                         \cup {items[k].from : k \in 1..Len(items)},
                    createOk, closeOk)

\* lines 88-99: the total size is added up; no valid path is an error
CompressValid(made, outputPath, validPaths, used, createOk, failAt, closeOk) ==
    IF validPaths = <<>>
    THEN CompressFail(made, ErrNotFound, used)
    ELSE CompressRegistered(made, outputPath, nextId, validPaths,
                            CompressTotalSize(made, validPaths),
                            AllEntries(made, validPaths), used,
                            createOk, failAt, closeOk)

\* lines 76-95: the paths of the request that resolve and exist are gathered
CompressNamed(made, path, outputPath, paths, createOk, failAt, closeOk) ==
    CompressValid(made, outputPath, ValidPaths(made, paths),
                  {Dir(path), path, outputPath}, createOk, failAt, closeOk)

\* lines 68-70: the output name is made unique
CompressInto(made, path, paths, createOk, failAt, closeOk) ==
    CompressNamed(made, path,
                  IF PathExists(made, path) THEN GenerateUniqueName(made, path)
                  ELSE path,
                  paths, createOk, failAt, closeOk)

\* lines 57-65: the output path is resolved and its directory made
CompressResolved(ov, paths, mkdirOk, createOk, failAt, closeOk) ==
    IF ov.err # ErrNone THEN CompressFail(fs, ov.err, {})
    ELSE IF MkdirAllFails(fs, Dir(ov.path), mkdirOk)
    THEN CompressFail(fs, "mkdir failed", {Dir(ov.path)})
    ELSE CompressInto(MkdirAll(fs, Dir(ov.path)), ov.path, paths,
                      createOk, failAt, closeOk)

\* Compress (lines 57-154); the system refuses to add entry failAt; closeOk
\* tells whether the deferred zipWriter.Close and zipFile.Close (lines 123,
\* 129), which run after the completion mark, succeed
Compress(paths, output, mkdirOk, createOk, failAt, closeOk) ==
    /\ CompressResolved(ValidatePath(BasePath, output), paths, mkdirOk,
                        createOk, failAt, closeOk)
    /\ UNCHANGED <<ups, pathVars, chunkVars, fmVars>>

(***************************************************************************)
(* FileManagerService.Rename on the local filesystem.                      *)
(***************************************************************************)
ErrAlreadyExists == "file or folder already exists"

\* os.Rename: what lies at oldPath and below it lies at newPath afterwards
RenameTree(files, oldPath, newPath) ==
    LET moved == {q \in DOMAIN files : Within(q, oldPath)}
        At(q) == newPath \o SubSeq(q, Len(oldPath) + 1, Len(q))
    IN  [q \in (DOMAIN files \ moved) \cup {At(m) : m \in moved} |->
            IF q \in DOMAIN files \ moved THEN files[q]
            ELSE files[CHOOSE m \in moved : At(m) = q]]

\* os.Rename can succeed: the new parent is a directory outside the renamed tree
CanRename(files, oldPath, newPath) ==
    /\ IsDir(files, Dir(newPath))
    /\ ~Within(newPath, oldPath)

\* Rename (lines 583-616), local branch
Rename(relativePath, newName, renameOk) ==
    /\ LET v       == ValidatePath(BasePath, relativePath)
           newPath == Join(Dir(v.path), newName)
       IN  IF v.err # ErrNone
           THEN /\ ret' = Return("Rename", 0, v.err)
                /\ touched' = {}
                /\ UNCHANGED fs
           ELSE IF ~PathExists(fs, v.path)
           THEN /\ ret' = Return("Rename", 0, ErrNotFound)
                /\ touched' = {v.path}
                /\ UNCHANGED fs
           ELSE IF PathExists(fs, newPath)
           THEN /\ ret' = Return("Rename", 0, ErrAlreadyExists)
                /\ touched' = {v.path, newPath}
                /\ UNCHANGED fs
           ELSE IF ~(renameOk /\ CanRename(fs, v.path, newPath))
           THEN /\ ret' = Return("Rename", 0, "rename failed")
                /\ touched' = {v.path, newPath}
                /\ UNCHANGED fs
           ELSE /\ fs' = RenameTree(fs, v.path, newPath)
                /\ ret' = ReturnAt("Rename", 0, ErrNone, newPath)
                /\ touched' = {v.path, newPath}
    /\ UNCHANGED <<progress, nextId, ups, pathVars, chunkVars, fmVars>>

(***************************************************************************)
(* FileManagerHandler and FileManagerService: the service that getService  *)
(* builds for a request works on the local filesystem, or, when the        *)
(* request carries a remote descriptor, on the remote one over SFTP.       *)
(***************************************************************************)
ErrSSHConnection == "SSH connection failed"

\* the session after NewRemoteFileManagerService called connectSSH (lines
\* 76-93, 96-125)
Connected(connectOk) ==
    [remote |-> TRUE, session |-> IF connectOk THEN "connected" ELSE "failed"]

\* handleServiceError for a session that could not be opened: no service is
\* built and nothing is done on either filesystem
ServiceError(handler) ==
    /\ ssh' = Connected(FALSE)
    /\ resp' = Response(handler, 502, 0, ErrSSHConnection)
    /\ ret' = NoRet
    /\ touched' = {}
    /\ UNCHANGED <<fs, rfs>>

\* the filesystem the service of the request works on
Backend == IF ssh.remote THEN rfs ELSE fs

\* the service leaves files on the filesystem it works on; stats is the set
\* of local paths it looked at or wrote
Leave(files, stats) ==
    /\ IF ssh.remote
       THEN /\ rfs' = files
            /\ UNCHANGED fs
       ELSE /\ fs' = files
            /\ UNCHANGED rfs
    /\ touched' = stats
    /\ ssh' = IF ssh.remote THEN Connected(TRUE) ELSE ssh

\* the answer of a handler of FileManagerHandler to what the service returned
Answer(handler, op, err, path, okStatus, errStatus) ==
    /\ ret' = ReturnAt(op, 0, err, path)
    /\ resp' = Response(handler, IF err = ErrNone THEN okStatus ELSE errStatus, 0,
                        IF err = ErrNone THEN "" ELSE err)

\* the local paths a service call worked on: none when it works over SFTP
LocalPaths(paths) == IF ssh.remote THEN {} ELSE paths

\* createFileLocal (lines 436-457) and createFileRemote (lines 459-484) on
\* the resolved path; what setOwner returns is logged and dropped
CreateFileAt(fullPath, content, ioOk, chownOk) ==
    IF PathExists(Backend, fullPath)
    THEN /\ Leave(Backend, LocalPaths({fullPath}))
         /\ Answer("CreateFile", "CreateFile", ErrAlreadyExists, <<>>, 201, 409)
    ELSE IF ~ssh.remote /\ MkdirAllFails(Backend, Dir(fullPath), ioOk)
    THEN /\ Leave(Backend, LocalPaths({fullPath, Dir(fullPath)}))
         /\ Answer("CreateFile", "CreateFile", "mkdir failed", <<>>, 201, 500)
    ELSE IF ~(ioOk /\ CanMkdirAll(Backend, Dir(fullPath)))
    THEN /\ Leave(Backend, LocalPaths({fullPath, Dir(fullPath)}))
         /\ Answer("CreateFile", "CreateFile", "write failed", <<>>, 201, 500)
    ELSE /\ Leave(WriteNode(MkdirAll(Backend, Dir(fullPath)), fullPath,
                            FileNode(content)),
               LocalPaths({fullPath, Dir(fullPath)}))
         /\ Answer("CreateFile", "CreateFile", ErrNone, fullPath, 201, 500)

\* CreateFile (lines 424-434) on the result of ValidatePath
CreateFileResolved(v, content, ioOk, chownOk) ==
    IF v.err # ErrNone
    THEN /\ Leave(Backend, {})
         /\ Answer("CreateFile", "CreateFile", v.err, <<>>, 201, 500)
    ELSE CreateFileAt(v.path, content, ioOk, chownOk)

\* FileManagerHandler.CreateFile (handler lines 219-254): getService, then
\* the service call; the handler refuses an empty path
CreateFile(relativePath, content, connectOk, ioOk, chownOk) ==
    /\ relativePath # <<>>
    /\ IF ssh.remote /\ ~connectOk
       THEN ServiceError("CreateFile")
       ELSE CreateFileResolved(ValidatePath(BasePath, relativePath), content,
                               ioOk, chownOk)
    /\ served' = served + 1
    /\ UNCHANGED <<progress, nextId, ups, pathVars, chunks, scratch, calls, sent, issued, stream>>

\* CreateFolder (lines 549-580) on the resolved path, on either filesystem
CreateFolderAt(fullPath, ioOk, chownOk) ==
    IF PathExists(Backend, fullPath)
    THEN /\ Leave(Backend, LocalPaths({fullPath}))
         /\ Answer("CreateFolder", "CreateFolder", ErrAlreadyExists, <<>>, 201, 409)
    ELSE IF ~(ioOk /\ CanMkdirAll(Backend, fullPath))
    THEN /\ Leave(Backend, LocalPaths({fullPath}))
         /\ Answer("CreateFolder", "CreateFolder", "mkdir failed", <<>>, 201, 500)
    ELSE /\ Leave(MkdirAll(Backend, fullPath), LocalPaths({fullPath}))
         /\ Answer("CreateFolder", "CreateFolder", ErrNone, fullPath, 201, 500)

\* CreateFolder on the result of ValidatePath
CreateFolderResolved(v, ioOk, chownOk) ==
    IF v.err # ErrNone
    THEN /\ Leave(Backend, {})
         /\ Answer("CreateFolder", "CreateFolder", v.err, <<>>, 201, 500)
    ELSE CreateFolderAt(v.path, ioOk, chownOk)

\* FileManagerHandler.CreateFolder (handler lines 296-331)
CreateFolder(relativePath, connectOk, ioOk, chownOk) ==
    /\ relativePath # <<>>
    /\ IF ssh.remote /\ ~connectOk
       THEN ServiceError("CreateFolder")
       ELSE CreateFolderResolved(ValidatePath(BasePath, relativePath), ioOk, chownOk)
    /\ served' = served + 1
    /\ UNCHANGED <<progress, nextId, ups, pathVars, chunks, scratch, calls, sent, issued, stream>>

\* what io.Copy leaves at target: the source's content, or nothing when the
\* target is the source itself, which os.Create has truncated by then
CopiedNode(files, from, target) ==
    IF target = from THEN [files[from] EXCEPT !.data = <<>>, !.entries = <<>>]
    ELSE files[from]

RECURSIVE CopyNodes(_, _, _, _, _, _)
\* what CopyFile or CopyDir does for node i of the walk, which goes to target
\* (fileutils.go lines 17-57 and 110-141; copyFileRemote and copyDirRemote,
\* lines 788-828)
CopyNode(files, walked, i, src, dst, failAt, target) ==
    IF failAt = i \/ ~CanMkdirAll(files, Dir(target))
    THEN [fs |-> files, err |-> "copy failed"]
    ELSE IF IsDir(files, walked[i])
    THEN IF ~CanMkdirAll(files, target)
         THEN [fs |-> files, err |-> "copy failed"]
         ELSE CopyNodes(MkdirAll(files, target), walked, i + 1, src, dst, failAt)
    ELSE IF IsDir(files, target)
    THEN [fs |-> files, err |-> "copy failed"]
    ELSE CopyNodes(WriteNode(MkdirAll(files, Dir(target)), target,
                             CopiedNode(files, walked[i], target)),
                   walked, i + 1, src, dst, failAt)

\* the tree at src copied to dst, node by node in the order of the walk; the
\* copy stops at the first node that fails and keeps what it wrote
CopyNodes(files, walked, i, src, dst, failAt) ==
    IF i > Len(walked) THEN [fs |-> files, err |-> ErrNone]
    ELSE CopyNode(files, walked, i, src, dst, failAt,
                  dst \o SubSeq(walked[i], Len(src) + 1, Len(walked[i])))

\* what Copy returned: the filesystem it leaves, its error, the last entry
\* it made and the local paths it looked at
Copied(files, err, path, stats) ==
    [fs |-> files, err |-> err, path |-> path, stats |-> stats]

\* the name of the copy (lines 736-746): the remote branch asks
\* utils.GenerateUniqueName, which looks at the local filesystem
CopyName(files, rq, dstItem) ==
    IF PathExists(files, dstItem) /\ ~rq.overwrite
    THEN GenerateUniqueName(IF rq.remote THEN rq.local ELSE files, dstItem)
    ELSE dstItem

\* the local paths one source makes Copy look at
CopyStats(files, rq, srcPath, dstItem) ==
    IF ~rq.remote THEN {srcPath, dstItem}
    ELSE IF PathExists(files, dstItem) /\ ~rq.overwrite THEN {dstItem}
    ELSE {}

RECURSIVE CopyLoop(_, _, _, _, _)
\* the end of one round of the loop: an error of the copy ends the call
CopyDone(rq, i, stats, dstItem, out) ==
    IF out.err # ErrNone THEN Copied(out.fs, out.err, <<>>, stats)
    ELSE CopyLoop(out.fs, rq, i + 1, dstItem, stats)

\* the copy of source i, which lies at srcPath, to dstItem
CopyTo(files, rq, i, stats, srcPath, dstItem) ==
    CopyDone(rq, i, stats, dstItem,
             CopyNodes(files, Walk(files, srcPath), 1, srcPath, dstItem,
                       IF rq.failAt = i THEN 1 ELSE 0))

\* source i resolved to v: a path outside the root ends the call, a source
\* that does not exist is passed over
CopySource(files, rq, i, last, stats, v) ==
    IF v.err # ErrNone THEN Copied(files, v.err, <<>>, stats)
    ELSE IF ~PathExists(files, v.path)
    THEN CopyLoop(files, rq, i + 1, last, stats \cup LocalPaths({v.path}))
    ELSE CopyTo(files, rq, i,
                stats \cup CopyStats(files, rq, v.path, Join(rq.destPath, Base(v.path))),
                v.path, CopyName(files, rq, Join(rq.destPath, Base(v.path))))

\* the loop of Copy over its sources (lines 720-783)
CopyLoop(files, rq, i, last, stats) ==
    IF i > Len(rq.sources) THEN Copied(files, ErrNone, last, stats)
    ELSE CopySource(files, rq, i, last, stats, ValidatePath(BasePath, rq.sources[i]))

\* the call that Copy serves on the resolved destination
CopyRequest(sources, destPath, overwrite, failAt) ==
    [sources |-> sources, destPath |-> destPath, overwrite |-> overwrite,
     failAt |-> failAt, remote |-> ssh.remote, local |-> fs]

\* what Copy leaves behind and what the handler answers
CopyReturn(out) ==
    /\ Leave(out.fs, out.stats)
    /\ Answer("Copy", "Copy", out.err, out.path, 200, 500)

\* Copy (lines 704-786) on the result of ValidatePath for the destination:
\* the destination directory is made first; over SFTP a failure to make it
\* is not looked at
CopyResolved(dv, sources, overwrite, mkdirOk, failAt, chownOk) ==
    IF dv.err # ErrNone
    THEN CopyReturn(Copied(Backend, dv.err, <<>>, {}))
    ELSE IF ~ssh.remote /\ MkdirAllFails(Backend, dv.path, mkdirOk)
    THEN CopyReturn(Copied(Backend, "mkdir failed", <<>>, {dv.path}))
    ELSE IF ~CanMkdirAll(Backend, dv.path)
    THEN CopyReturn(CopyLoop(Backend, CopyRequest(sources, dv.path, overwrite, failAt),
                             1, <<>>, {}))
    ELSE CopyReturn(CopyLoop(MkdirAll(Backend, dv.path),
                             CopyRequest(sources, dv.path, overwrite, failAt),
                             1, <<>>, LocalPaths({dv.path})))

\* FileManagerHandler.Copy (handler lines 413-443): the handler refuses a
\* request without sources or without a destination
Copy(sources, destination, overwrite, connectOk, mkdirOk, failAt, chownOk) ==
    /\ sources # <<>>
    /\ destination # <<>>
    /\ IF ssh.remote /\ ~connectOk
       THEN ServiceError("Copy")
       ELSE CopyResolved(ValidatePath(BasePath, destination), sources, overwrite,
                         mkdirOk, failAt, chownOk)
    /\ served' = served + 1
    /\ UNCHANGED <<progress, nextId, ups, pathVars, chunks, scratch, calls, sent, issued, stream>>

(***************************************************************************)
(* FileManagerService.Move: a rename, and a copy followed by a removal     *)
(* when the rename fails.                                                  *)
(***************************************************************************)
\* os.RemoveAll, os.Remove, removeAllRemote and sftp Remove: path and what
\* lies below it are gone
RemoveTree(files, path) ==
    [q \in {p \in DOMAIN files : ~Within(p, path)} |-> files[q]]

\* the rename of Move works: os.Rename of a path to itself does nothing, it
\* puts a file in the place of a file and a directory in the place of an
\* empty one; the rename of SFTP refuses a name that exists; renameOk stands
\* for every other cause of failure
RenameWorks(files, rq, srcPath, dstItem) ==
    /\ IsDir(files, Dir(dstItem))
    /\ ~(Within(dstItem, srcPath) /\ dstItem # srcPath)
    /\ IF rq.remote THEN rq.renameOk /\ ~PathExists(files, dstItem)
       ELSE \/ dstItem = srcPath
            \/ /\ rq.renameOk
               /\ \/ ~PathExists(files, dstItem)
                  \/ ~IsDir(files, srcPath) /\ ~IsDir(files, dstItem)
                  \/ IsDir(files, srcPath) /\ IsDir(files, dstItem)
                         /\ Children(files, dstItem) = {}

\* the rename, over what lay at dstItem
RenameOver(files, srcPath, dstItem) ==
    IF dstItem = srcPath THEN files
    ELSE RenameTree(RemoveTree(files, dstItem), srcPath, dstItem)

\* the call that Move serves on the resolved destination
MoveRequest(sources, destPath, overwrite, renameOk, failAt) ==
    [sources |-> sources, destPath |-> destPath, overwrite |-> overwrite,
     renameOk |-> renameOk, failAt |-> failAt, remote |-> ssh.remote, local |-> fs]

RECURSIVE MoveLoop(_, _, _, _, _)
\* the fallback after the copy returned out (lines 926-935 and 944-953): an
\* error ends the call, otherwise the source is removed
MoveFallback(rq, i, stats, srcPath, dstItem, out) ==
    IF out.err # ErrNone THEN Copied(out.fs, out.err, <<>>, stats)
    ELSE MoveLoop(RemoveTree(out.fs, srcPath), rq, i + 1, dstItem, stats)

\* the move of source i, which lies at srcPath, to dstItem (lines 918-961)
MoveTo(files, rq, i, stats, srcPath, dstItem) ==
    IF RenameWorks(files, rq, srcPath, dstItem)
    THEN MoveLoop(RenameOver(files, srcPath, dstItem), rq, i + 1, dstItem, stats)
    ELSE MoveFallback(rq, i, stats, srcPath, dstItem,
                      CopyNodes(files, Walk(files, srcPath), 1, srcPath, dstItem,
                                IF rq.failAt = i THEN 1 ELSE 0))

\* source i resolved to v (lines 899-914): a path outside the root ends the
\* call, a source that does not exist is passed over
MoveSource(files, rq, i, last, stats, v) ==
    IF v.err # ErrNone THEN Copied(files, v.err, <<>>, stats)
    ELSE IF ~PathExists(files, v.path)
    THEN MoveLoop(files, rq, i + 1, last, stats \cup LocalPaths({v.path}))
    ELSE MoveTo(files, rq, i,
                stats \cup CopyStats(files, rq, v.path, Join(rq.destPath, Base(v.path))),
                v.path, CopyName(files, rq, Join(rq.destPath, Base(v.path))))

\* the loop of Move over its sources (lines 898-967)
MoveLoop(files, rq, i, last, stats) ==
    IF i > Len(rq.sources) THEN Copied(files, ErrNone, last, stats)
    ELSE MoveSource(files, rq, i, last, stats, ValidatePath(BasePath, rq.sources[i]))

\* what Move leaves behind and what the handler answers
MoveReturn(out) ==
    /\ Leave(out.fs, out.stats)
    /\ Answer("Move", "Move", out.err, out.path, 200, 500)

\* Move (lines 882-970) on the result of ValidatePath for the destination:
\* the destination directory is made first; over SFTP a failure to make it
\* is not looked at
MoveResolved(dv, sources, overwrite, mkdirOk, renameOk, failAt) ==
    IF dv.err # ErrNone
    THEN MoveReturn(Copied(Backend, dv.err, <<>>, {}))
    ELSE IF ~ssh.remote /\ MkdirAllFails(Backend, dv.path, mkdirOk)
    THEN MoveReturn(Copied(Backend, "mkdir failed", <<>>, {dv.path}))
    ELSE IF ~CanMkdirAll(Backend, dv.path)
    THEN MoveReturn(MoveLoop(Backend,
                             MoveRequest(sources, dv.path, overwrite, renameOk, failAt),
                             1, <<>>, {}))
    ELSE MoveReturn(MoveLoop(MkdirAll(Backend, dv.path),
                             MoveRequest(sources, dv.path, overwrite, renameOk, failAt),
                             1, <<>>, LocalPaths({dv.path})))

\* FileManagerHandler.Move (handler lines 446-477): the handler refuses a
\* request without sources or without a destination
Move(sources, destination, overwrite, connectOk, mkdirOk, renameOk, failAt) ==
    /\ sources # <<>>
    /\ destination # <<>>
    /\ IF ssh.remote /\ ~connectOk
       THEN ServiceError("Move")
       ELSE MoveResolved(ValidatePath(BasePath, destination), sources, overwrite,
                         mkdirOk, renameOk, failAt)
    /\ served' = served + 1
    /\ UNCHANGED <<progress, nextId, ups, pathVars, chunks, scratch, calls, sent, issued, stream>>

\* the Auth middleware (auth.go lines 28-97): the requests that follow carry
\* a remote descriptor, or none
Auth(remote) ==
    /\ ssh' = [remote |-> remote, session |-> "none"]
    /\ UNCHANGED <<svcVars, pathVars, rfs, stream, served>>

(***************************************************************************)
(* SpecSession: the secure-shell client and the SFTP client of the service *)
(* that getService builds for a List, a GetInfo or a Download request,     *)
(* from dialling to the return of the handler.                             *)
(***************************************************************************)
\* the number of requests of SpecSession
MaxRequests == 4

\* no request is being served; sshClient and sftpClient are the two clients
\* of the service, pc the place of the handler
NoSession ==
    [remote |-> FALSE, session |-> "none", sshClient |-> "none",
     sftpClient |-> "none", pc |-> "idle", handler |-> ""]

\* Close that leaves the secure-shell client open (lines 132-134 dropped)
CloseSftpOnly(s) ==
    [s EXCEPT !.sftpClient = IF @ = "open" THEN "closed" ELSE @]

\* FileManagerService.Close (filemanager_service.go lines 128-135)
Close(s) ==
    [s EXCEPT !.sftpClient = IF @ = "open" THEN "closed" ELSE @,
              !.sshClient = IF @ = "open" THEN "closed" ELSE @]

\* the frame of the steps of a handler that work on the session only
SessionFrame ==
    UNCHANGED <<fs, progress, nextId, ups, chunks, scratch, calls, sent, issued, ret,
                touched, pathVars, rfs, stream>>

\* a request enters List or Download and getService picks the service
\* (handler lines 27-46): the local one, or the remote one, which dials
GetService(handler, remote) ==
    /\ ssh.pc \in {"idle", "returned"}
    /\ served < MaxRequests
    /\ ssh' = [NoSession EXCEPT !.remote = remote, !.handler = handler,
                                !.pc = IF remote THEN "dial" ELSE "serve"]
    /\ served' = served + 1
    /\ resp' = NoResp
    /\ SessionFrame

\* connectSSH up to ssh.Dial (lines 97-115); a key that does not parse and a
\* dial that fails open nothing and the handler answers 502
Dial(dialOk) ==
    /\ ssh.pc = "dial"
    /\ IF dialOk
       THEN /\ ssh' = [ssh EXCEPT !.sshClient = "open", !.pc = "sftp"]
            /\ resp' = resp
       ELSE /\ ssh' = [ssh EXCEPT !.session = "failed", !.pc = "returned"]
            /\ resp' = Response(ssh.handler, 502, 0, ErrSSHConnection)
    /\ UNCHANGED served
    /\ SessionFrame

\* connectSSH from sftp.NewClient on (lines 117-124): when the SFTP client
\* cannot be made the secure-shell client is closed
NewSftpClient(sftpOk) ==
    /\ ssh.pc = "sftp"
    /\ IF sftpOk
       THEN /\ ssh' = [ssh EXCEPT !.sftpClient = "open", !.session = "connected",
                                  !.pc = "serve"]
            /\ resp' = resp
       ELSE /\ ssh' = [ssh EXCEPT !.sshClient = "closed", !.session = "failed",
                                  !.pc = "returned"]
            /\ resp' = Response(ssh.handler, 502, 0, ErrSSHConnection)
    /\ UNCHANGED served
    /\ SessionFrame

\* FileManagerHandler.List after getService (handler lines 66-79): the Close
\* deferred for a remote service runs at the return
ListRequest(listOk) ==
    /\ ssh.pc = "serve"
    /\ ssh.handler = "List"
    /\ ssh' = [(IF ssh.remote THEN Close(ssh) ELSE ssh) EXCEPT !.pc = "returned"]
    /\ resp' = IF listOk THEN Response("List", 200, 0, "")
               ELSE Response("List", 400, 0, "list failed")
    /\ UNCHANGED served
    /\ SessionFrame

\* FileManagerHandler.GetInfo after getService (handler lines 114-134), with
\* the error of the service call; the deferred Close runs at the return
GetInfoRequest(err) ==
    /\ ssh.pc = "serve"
    /\ ssh.handler = "GetInfo"
    /\ ssh' = [(IF ssh.remote THEN Close(ssh) ELSE ssh) EXCEPT !.pc = "returned"]
    /\ resp' = Response("GetInfo", IF err = ErrNone THEN 200
                                   ELSE IF err = ErrNotFound THEN 404 ELSE 500, 0, err)
    /\ UNCHANGED served
    /\ SessionFrame

\* FileManagerHandler.Download after getService (handler lines 144-215): an
\* empty path, a GetContent that fails, and the read of the content each
\* call Close on a remote service before the answer
DownloadRequest(path, getOk, readOk) ==
    /\ ssh.pc = "serve"
    /\ ssh.handler = "Download"
    /\ ssh' = [(IF ssh.remote THEN Close(ssh) ELSE ssh) EXCEPT !.pc = "returned"]
    /\ resp' = IF path = <<>> THEN Response("Download", 400, 0, "Path is required")
               ELSE IF ~getOk THEN Response("Download", 404, 0, ErrNotFound)
               ELSE IF ssh.remote /\ ~readOk THEN Response("Download", 500, 0, "read failed")
               ELSE Response("Download", 200, 0, "")
    /\ UNCHANGED served
    /\ SessionFrame

SessionInit ==
    /\ PathIdle
    /\ SvcInit
    /\ rfs = InitialRfs
    /\ ssh = NoSession
    /\ stream = NoStream
    /\ served = 0

SessionNext ==
    \/ \E handler \in {"List", "GetInfo", "Download"}, remote \in BOOLEAN :
           GetService(handler, remote)
    \/ \E dialOk \in BOOLEAN : Dial(dialOk)
    \/ \E sftpOk \in BOOLEAN : NewSftpClient(sftpOk)
    \/ \E listOk \in BOOLEAN : ListRequest(listOk)
    \/ \E err \in {ErrNone, ErrNotFound, "stat failed"} : GetInfoRequest(err)
    \/ \E path \in {<<>>, <<"n">>}, getOk \in BOOLEAN, readOk \in BOOLEAN :
           DownloadRequest(path, getOk, readOk)

SpecSession == SessionInit /\ [][SessionNext]_vars

(***************************************************************************)
(* SpecExtract: one Extract of an archive that lies in the tenant root.    *)
(***************************************************************************)
\* where the archive lies
ArchivePath == Join(BasePath, <<"z">>)

\* the entries the archives are made of
ZipEntries ==
    { ZipEntry(<<"f">>, FALSE, <<1>>),
      ZipEntry(<<"d", "/">>, TRUE, <<>>),
      ZipEntry(<<"d", "/", "f">>, FALSE, <<2, 2>>),
      ZipEntry(<<".", ".", "/", "e">>, FALSE, <<3>>),
      ZipEntry(<<".", ".", "/", "d", "x">>, FALSE, <<>>) }

RECURSIVE SeqsUpTo(_, _)
\* the sequences of at most n elements of S
SeqsUpTo(S, n) ==
    IF n = 0 THEN {<<>>}
    ELSE LET shorter == SeqsUpTo(S, n - 1)
         IN  shorter \cup {Append(q, x) : q \in shorter, x \in S}

Archives == SeqsUpTo(ZipEntries, MaxEntries)

ExtractInit ==
    /\ PathIdle
    /\ FmIdle
    /\ \E entries \in Archives : fs = WriteNode(InitialFs, ArchivePath, ZipNode(entries))
    /\ progress = <<>>
    /\ nextId = 1
    /\ ups = <<>>
    /\ chunks = <<>>
    /\ scratch = <<>>
    /\ calls = <<>>
    /\ sent = <<>>
    /\ issued = {}
    /\ resp = NoResp
    /\ ret = NoRet
    /\ touched = {}

ExtractNext ==
    /\ nextId <= MaxExtracts
    /\ \E source \in {<<"z">>, <<"n">>}, destination \in {<<".">>, <<"d">>, <<"z">>},
          mkdirOk \in BOOLEAN, failAt \in 0..MaxEntries, chownOk \in BOOLEAN :
           Extract(source, destination, mkdirOk, failAt, chownOk)

SpecExtract == ExtractInit /\ [][ExtractNext]_vars

(***************************************************************************)
(* Spec: the services of one tenant, one call at a time.  The tenant root  *)
(* holds an archive; at most MaxOps calls register a progress record.      *)
(***************************************************************************)
\* no Upload and no UploadChunk call is in flight
Idle == ups = <<>> /\ calls = <<>>

\* the archives that may lie in the tenant root at the start
StartArchives ==
    { <<ZipEntry(<<"f">>, FALSE, <<1>>)>>,
      <<ZipEntry(<<"d", "/">>, TRUE, <<>>),
        ZipEntry(<<".", ".", "/", "e">>, FALSE, <<3>>)>> }

Init ==
    /\ PathIdle
    /\ FmIdle
    /\ \E entries \in StartArchives :
          fs = WriteNode(InitialFs, ArchivePath, ZipNode(entries))
    /\ progress = <<>>
    /\ nextId = 1
    /\ ups = <<>>
    /\ chunks = <<>>
    /\ scratch = <<>>
    /\ calls = <<>>
    /\ sent = <<>>
    /\ issued = {}
    /\ resp = NoResp
    /\ ret = NoRet
    /\ touched = {}

Next ==
    \/ /\ Idle /\ nextId <= MaxOps
       \* the handler passes Part.FileName(), the base name of what was sent
       /\ UploadStarts({Base(name) : name \in Filenames}, Destinations)
    \/ UploadSteps
    \/ /\ Idle /\ nextId <= MaxOps
       /\ \E filename \in Filenames, shape \in ChunkShapes, mkdirOk \in BOOLEAN :
              InitChunkedUpload(filename, <<>>, shape[1], shape[2], mkdirOk)
    \/ /\ Idle /\ Submitted < MaxSubmits
       /\ \E uploadID \in 1..(nextId - 1), chunkIndex \in 0..1, writeOk \in BOOLEAN :
              UploadChunkBegin(uploadID, chunkIndex, 1, writeOk)
    \/ \E c \in DOMAIN calls, createOk \in BOOLEAN, mkdirOk \in BOOLEAN :
           UploadChunkEnd(c, createOk, mkdirOk)
    \/ /\ Idle /\ nextId <= MaxOps
       /\ \E destination \in {<<".">>, <<"d">>}, mkdirOk \in BOOLEAN, failAt \in 0..1,
             chownOk \in BOOLEAN :
              Extract(<<"z">>, destination, mkdirOk, failAt, chownOk)
    \/ /\ Idle /\ nextId <= MaxOps
       /\ \E paths \in {<<<<"z">>>>, <<<<"n">>, <<"d">>>>},
             createOk \in BOOLEAN, failAt \in 0..1, closeOk \in BOOLEAN :
              Compress(paths, <<"o">>, TRUE, createOk, failAt, closeOk)
    \/ /\ Idle
       /\ \E relativePath \in {<<"z">>, <<"n">>}, newName \in {<<"g">>, <<".", ".", "/", "g">>},
             renameOk \in BOOLEAN :
              Rename(relativePath, newName, renameOk)

Spec == Init /\ [][Next]_vars

(***************************************************************************)
(* The push-style progress stream: UploadHandler.Progress, its WebSocket   *)
(* twin and the Progress handlers of compress and extract run the same     *)
(* loop.  ProgressStore.Get hands out the record itself, not a copy: what  *)
(* the loop emits and what it tests afterwards are two reads of a record   *)
(* that the operation writes in between.                                   *)
(***************************************************************************)
\* the status is completed or failed
IsTerminal(rec) == rec.Status \in {StatusCompleted, StatusFailed}

\* the event of a stream whose identifier is not in the store
NotFoundEvent == [Status |-> "", Error |-> "upload not found"]

\* a subscriber opens the stream of id
Subscribe(id) ==
    /\ stream = NoStream
    /\ stream' = [NoStream EXCEPT !.id = id, !.open = TRUE]
    /\ UNCHANGED <<svcVars, pathVars, rfs, ssh, served>>

\* the stream after it has emitted rec
Emitted(rec) ==
    [stream EXCEPT !.last = rec,
                   !.afterTerminal = @ \/ IsTerminal(stream.last)]

\* a tick: Get, and the event is written and flushed (upload_handler.go lines
\* 248-258); an identifier that is not in the store ends the stream
StreamTick ==
    /\ stream.open
    /\ stream.pc = "tick"
    /\ stream' = IF stream.id \notin DOMAIN progress
                 THEN [Emitted(NotFoundEvent) EXCEPT !.open = FALSE, !.end = "not found"]
                 ELSE [Emitted(progress[stream.id]) EXCEPT !.pc = "check"]
    /\ UNCHANGED <<svcVars, pathVars, rfs, ssh, served>>

\* the test after the flush (lines 260-262), which reads the status of the
\* record as it is by then
StreamCheck ==
    /\ stream.open
    /\ stream.pc = "check"
    /\ stream' = IF IsTerminal(progress[stream.id])
                 THEN [stream EXCEPT !.open = FALSE, !.end = "terminal"]
                 ELSE [stream EXCEPT !.pc = "tick"]
    /\ UNCHANGED <<svcVars, pathVars, rfs, ssh, served>>

(***************************************************************************)
(* SpecStream: one Upload call and one subscriber.  SpecStreamFair adds    *)
(* that the ticker of an open stream keeps firing.                         *)
(***************************************************************************)
StreamInit == PathIdle /\ SvcInit /\ FmIdle

StreamNext ==
    \/ nextId <= MaxOps /\ UploadStarts({<<"f">>}, {<<>>})
    \/ UploadSteps
    \/ \E id \in 1..(MaxOps + 1) : Subscribe(id)
    \/ StreamTick
    \/ StreamCheck

SpecStream == StreamInit /\ [][StreamNext]_vars

SpecStreamFair == SpecStream /\ WF_vars(StreamTick) /\ WF_vars(StreamCheck)

(***************************************************************************)
(* SpecObserve: the copy loop of addFileToZip (extractFile has the same    *)
(* loop) writes the two progress fields of the record one after the other, *)
(* through the record that Get handed out and outside the lock of the      *)
(* store, while a subscriber reads the record.  It starts in the state     *)
(* that Compress leaves behind after it has stored the record.             *)
(***************************************************************************)
\* the total size of the paths of the Compress call of SpecObserve
ObserveTotal == 3

ObserveInit ==
    /\ PathIdle
    /\ FmIdle
    /\ fs = InitialFs
    /\ progress = StoreSet(<<>>, 1, NewProgress(<<"o">>, ObserveTotal, StatusProcessing))
    /\ nextId = 2
    /\ ups = <<>>
    /\ chunks = <<>>
    /\ scratch = <<>>
    /\ calls = Put(<<>>, 1, [id |-> 1, compressedBytes |-> 0, pc |-> "read"])
    /\ sent = <<>>
    /\ issued = {}
    /\ resp = NoResp
    /\ ret = NoRet
    /\ touched = {}

\* n bytes were read and written: atomic.AddInt64 and the write of the
\* percentage (compress_service.go lines 189-193)
AddFileToZipPercent(c, n) ==
    /\ c \in DOMAIN calls
    /\ calls[c].pc = "read"
    /\ n \in 1..(progress[calls[c].id].TotalBytes - calls[c].compressedBytes)
    /\ LET newVal == calls[c].compressedBytes + n
           id     == calls[c].id
       IN  /\ progress' = IF progress[id].TotalBytes > 0
                          THEN [progress EXCEPT ![id].Progress =
                                   Percent(newVal, progress[id].TotalBytes)]
                          ELSE progress
           /\ calls' = [calls EXCEPT ![c].compressedBytes = newVal, ![c].pc = "bytes"]
    /\ UNCHANGED <<fs, nextId, ups, chunks, scratch, sent, issued, resp, ret, touched,
                   pathVars, fmVars>>

\* the write of the byte count that follows (line 194)
AddFileToZipBytes(c) ==
    /\ c \in DOMAIN calls
    /\ calls[c].pc = "bytes"
    /\ progress' = IF progress[calls[c].id].TotalBytes > 0
                   THEN [progress EXCEPT ![calls[c].id].UploadedBytes =
                            calls[c].compressedBytes]
                   ELSE progress
    /\ calls' = [calls EXCEPT ![c].pc = "read"]
    /\ UNCHANGED <<fs, nextId, ups, chunks, scratch, sent, issued, resp, ret, touched,
                   pathVars, fmVars>>

ObserveNext ==
    \/ \E c \in DOMAIN calls, n \in 1..ObserveTotal : AddFileToZipPercent(c, n)
    \/ \E c \in DOMAIN calls : AddFileToZipBytes(c)
    \/ \E id \in 1..2 : Subscribe(id)
    \/ StreamTick
    \/ StreamCheck

SpecObserve == ObserveInit /\ [][ObserveNext]_vars

(***************************************************************************)
(* SpecRound: Compress and Extract on a tenant root that holds a file and  *)
(* a directory tree.                                                       *)
(***************************************************************************)
TreePath == Join(BasePath, <<"t">>)

\* the tree: a file, and a directory that holds a file
RoundFs ==
    [q \in DOMAIN InitialFs \cup {Join(BasePath, <<"n">>), TreePath, Join(TreePath, <<"f">>), Join(TreePath, <<"s">>), Join(TreePath, <<"s", "/", "g">>)} |->
        IF q = Join(BasePath, <<"n">>) THEN FileNode(<<4>>)
        ELSE IF q = Join(TreePath, <<"f">>) THEN FileNode(<<1>>)
        ELSE IF q = Join(TreePath, <<"s", "/", "g">>) THEN FileNode(<<2, 3>>)
        ELSE DirNode]

RoundInit ==
    /\ PathIdle
    /\ FmIdle
    /\ fs = RoundFs
    /\ progress = <<>>
    /\ nextId = 1
    /\ ups = <<>>
    /\ chunks = <<>>
    /\ scratch = <<>>
    /\ calls = <<>>
    /\ sent = <<>>
    /\ issued = {}
    /\ resp = NoResp
    /\ ret = NoRet
    /\ touched = {}

\* the path lists of the Compress requests: the tree; the file after a path
\* that does not exist or that leaves the root; no path that is valid
RoundPaths ==
    { <<<<"t">>>>, <<<<"x">>, <<"n">>>>, <<<<".", ".", "/", ".", ".", "/", "b">>, <<"n">>>>,
      <<<<"x">>>>, <<<<".", ".", "/", ".", ".", "/", "b">>, <<"x">>>> }

RoundNext ==
    \/ /\ nextId <= MaxRound
       /\ \E paths \in RoundPaths, createOk \in BOOLEAN, failAt \in 0..2, closeOk \in BOOLEAN :
              Compress(paths, <<"o">>, TRUE, createOk, failAt, closeOk)
    \/ /\ nextId <= MaxRound
       /\ \E destination \in {<<"e">>, <<".">>}, mkdirOk \in BOOLEAN, failAt \in 0..2,
             chownOk \in BOOLEAN :
              Extract(<<"o">>, destination, mkdirOk, failAt, chownOk)

SpecRound == RoundInit /\ [][RoundNext]_vars

(***************************************************************************)
(* SpecNames: Compress on a tenant root that holds two directories with a  *)
(* file of the same name in each.                                          *)
(***************************************************************************)
\* the two directories and their files
NamesFs ==
    [q \in DOMAIN InitialFs \cup {Join(BasePath, <<"a">>), Join(BasePath, <<"b">>), Join(BasePath, <<"a", "/", "x">>), Join(BasePath, <<"b", "/", "x">>)} |->
        IF q = Join(BasePath, <<"a", "/", "x">>) THEN FileNode(<<1>>)
        ELSE IF q = Join(BasePath, <<"b", "/", "x">>) THEN FileNode(<<2>>)
        ELSE DirNode]

NamesInit ==
    /\ PathIdle
    /\ FmIdle
    /\ fs = NamesFs
    /\ progress = <<>>
    /\ nextId = 1
    /\ ups = <<>>
    /\ chunks = <<>>
    /\ scratch = <<>>
    /\ calls = <<>>
    /\ sent = <<>>
    /\ issued = {}
    /\ resp = NoResp
    /\ ret = NoRet
    /\ touched = {}

\* the path lists of the Compress requests: one file, the two files of the
\* same name, one directory, the two directories
NamesPaths ==
    { <<<<"a", "/", "x">>>>, <<<<"a", "/", "x">>, <<"b", "/", "x">>>>,
      <<<<"a">>>>, <<<<"a">>, <<"b">>>> }

NamesNext ==
    /\ nextId <= MaxRound
    /\ \E paths \in NamesPaths, createOk \in BOOLEAN, failAt \in 0..2, closeOk \in BOOLEAN :
           Compress(paths, <<"o">>, TRUE, createOk, failAt, closeOk)

SpecNames == NamesInit /\ [][NamesNext]_vars

(***************************************************************************)
(* SpecFm: the handlers of one tenant whose requests may carry a remote    *)
(* descriptor.  On either filesystem the tenant has a file and a directory *)
(* that holds a file of the same name; the local one has an archive too,   *)
(* with an entry for the directory and one named as the file.              *)
(***************************************************************************)
FmLocal ==
    [q \in DOMAIN InitialFs \cup {Join(BasePath, <<"n">>), Join(BasePath, <<"d">>), Join(BasePath, <<"d", "/", "n">>), ArchivePath} |->
        IF q = Join(BasePath, <<"n">>) THEN FileNode(<<1>>)
        ELSE IF q = Join(BasePath, <<"d", "/", "n">>) THEN FileNode(<<2>>)
        ELSE IF q = ArchivePath
        THEN ZipNode(<<ZipEntry(<<"d", "/">>, TRUE, <<>>), ZipEntry(<<"n">>, FALSE, <<6>>)>>)
        ELSE DirNode]

FmRemote ==
    [q \in DOMAIN InitialRfs \cup {Join(BasePath, <<"m">>), Join(BasePath, <<"d">>), Join(BasePath, <<"d", "/", "m">>)} |->
        IF q = Join(BasePath, <<"m">>) THEN FileNode(<<3>>)
        ELSE IF q = Join(BasePath, <<"d", "/", "m">>) THEN FileNode(<<4>>)
        ELSE DirNode]

FmInit ==
    /\ PathIdle
    /\ fs = FmLocal
    /\ rfs = FmRemote
    /\ ssh = NoSsh
    /\ stream = NoStream
    /\ served = 0
    /\ progress = <<>>
    /\ nextId = 1
    /\ ups = <<>>
    /\ chunks = <<>>
    /\ scratch = <<>>
    /\ calls = <<>>
    /\ sent = <<>>
    /\ issued = {}
    /\ resp = NoResp
    /\ ret = NoRet
    /\ touched = {}

\* FileManagerHandler may serve a further request
Room == served < MaxServed

\* the source lists of the Copy requests
CopySources == {<<<<"n">>>>, <<<<"m">>>>, <<<<"d">>>>, <<<<".", ".", "/", "b">>, <<"n">>>>}

FmNext ==
    \/ /\ Idle
       /\ \E remote \in BOOLEAN : Auth(remote)
    \/ /\ Idle /\ Room
       /\ \E relativePath \in {<<"n">>, <<"c">>, <<".", ".", "/", "b">>},
             connectOk \in BOOLEAN, ioOk \in BOOLEAN, chownOk \in BOOLEAN :
              CreateFile(relativePath, <<5>>, connectOk, ioOk, chownOk)
    \/ /\ Idle /\ Room
       /\ \E relativePath \in {<<"d">>, <<"e">>, <<".", ".", "/", "b">>},
             connectOk \in BOOLEAN, ioOk \in BOOLEAN, chownOk \in BOOLEAN :
              CreateFolder(relativePath, connectOk, ioOk, chownOk)
    \/ /\ Idle /\ Room
       /\ \E sources \in CopySources, destination \in {<<"d">>, <<"e">>, <<".", ".", "/", "b">>},
             overwrite \in BOOLEAN, connectOk \in BOOLEAN, mkdirOk \in BOOLEAN,
             failAt \in 0..1, chownOk \in BOOLEAN :
              /\ sources = <<<<"d">>>> => destination # <<"d">>
              /\ Copy(sources, destination, overwrite, connectOk, mkdirOk, failAt, chownOk)
    \/ /\ Idle /\ nextId <= MaxOps
       /\ UploadStarts({<<"f">>}, {<<>>})
    \/ UploadSteps
    \/ /\ Idle /\ nextId <= MaxOps
       /\ \E destination \in {<<".">>, <<"e">>}, mkdirOk \in BOOLEAN, failAt \in 0..1,
             chownOk \in BOOLEAN :
              Extract(<<"z">>, destination, mkdirOk, failAt, chownOk)
    \/ /\ Idle /\ nextId <= MaxOps
       /\ \E createOk \in BOOLEAN, failAt \in 0..1, closeOk \in BOOLEAN :
              Compress(<<<<"n">>>>, <<"o">>, TRUE, createOk, failAt, closeOk)

SpecFm == FmInit /\ [][FmNext]_vars

(***************************************************************************)
(* SpecMove: Move requests on the two filesystems of SpecFm, each for one  *)
(* source and a destination that does not lie below the source.            *)
(***************************************************************************)
\* the number of Move requests of SpecMove
MaxMoves == 2

\* the (source, destination) pairs of the Move requests
MoveCases ==
    { <<<<"n">>, <<".">>>>, <<<<"n">>, <<"d">>>>, <<<<"n">>, <<"e">>>>,
      <<<<"m">>, <<".">>>>, <<<<"m">>, <<"d">>>>,
      <<<<"d">>, <<".">>>>, <<<<"d">>, <<"e">>>> }

MoveNext ==
    \/ \E remote \in BOOLEAN : Auth(remote)
    \/ /\ served < MaxMoves
       /\ \E case \in MoveCases, overwrite \in BOOLEAN, connectOk \in BOOLEAN,
             mkdirOk \in BOOLEAN, renameOk \in BOOLEAN, failAt \in 0..1 :
              Move(<<case[1]>>, case[2], overwrite, connectOk, mkdirOk, renameOk, failAt)

SpecMove == FmInit /\ [][MoveNext]_vars

(***************************************************************************)
(* Claims about ValidatePath, checked under SpecPath.                      *)
(***************************************************************************)
Resolved == vpOut # NoResult

\* the request has a ".." segment
HasDotDotSegment(req) == \E i \in 1..Len(Split(req)) : Split(req)[i] = DotDot

\* C1: whenever ValidatePath returns a path without error, the path is the
\* root or a descendant of the root by path components; a sibling whose name
\* extends the root's name is never returned.
C1_ResolvedWithinRoot ==
    (Resolved /\ vpOut.err = ErrNone) => Within(vpOut.path, Clean(vpBase))

\* C3: every request with a ".." segment or in absolute form gets the
\* traversal error and no path.
C3_DotDotOrAbsoluteRejected ==
    (Resolved /\ (HasDotDotSegment(vpReq) \/ IsAbs(vpReq)))
        => (vpOut.err = ErrPathTraversal /\ vpOut.path = <<>>)

(***************************************************************************)
(* Claims about the progress record of an Upload, checked under SpecUpload.*)
(***************************************************************************)
RECURSIVE Sum(_)
Sum(seq) == IF seq = <<>> THEN 0 ELSE seq[1] + Sum(Tail(seq))

\* C8: the transferred-byte count of a record never decreases, from its
\* creation through every update to the completed or failed mark, whatever
\* the declared total.
C8_TransferredNeverDecreases ==
    [][\A id \in DOMAIN progress :
          progress'[id].UploadedBytes >= progress[id].UploadedBytes]_vars

\* C9: after the updates an Upload has made so far, with byte deltas d1..dN,
\* the record's transferred bytes are d1 + ... + dN and its percentage is
\* floor(transferred * 100 / total) when total > 0 and 0 when total is 0.
C9_TransferredIsSumOfDeltas ==
    \A id \in DOMAIN ups :
        ups[id].pc = "copy" =>
            LET p == progress[id]
                transferred == Sum(ups[id].deltas)
            IN  /\ p.UploadedBytes = transferred
                /\ p.TotalBytes > 0 =>
                      /\ p.Progress * p.TotalBytes <= transferred * 100
                      /\ transferred * 100 < (p.Progress + 1) * p.TotalBytes
                /\ p.TotalBytes = 0 => p.Progress = 0

\* an upload with a declared total has made two updates
C9_Witness ==
    \E id \in DOMAIN ups :
        /\ Len(ups[id].deltas) >= 2
        /\ progress[id].TotalBytes > 0
        /\ progress[id].UploadedBytes = Sum(ups[id].deltas)
        /\ progress[id].Progress = 100
\* the sum of the lengths lens (computed without recursion when each is 1)
TotalLength(lens) ==
    IF \A i \in 1..Len(lens) : lens[i] = 1 THEN Len(lens) ELSE Sum(lens)

\* the chunk indexes of session id for which a payload was submitted
SentCount(id) == PagedCount(sent[id], <<>>)

\* the session id has had each of its chunk indexes 0..N-1 submitted once,
\* with payloads whose lengths add up to the declared total size
EachIndexOnce(id) ==
    /\ id \in DOMAIN sent
    /\ id \in DOMAIN progress
    /\ \A i \in 0..(SentCount(id) - 1) : Len(SentFor(sent[id], i)) = 1
    /\ TotalLength(AsSeq([i \in 1..SentCount(id) |-> SentFor(sent[id], i - 1)[1]]))
           = progress[id].TotalBytes

\* the payloads submitted for session id, one after another in index order
InIndexOrder(id) ==
    Concat(AsSeq([i \in 1..SentCount(id) |-> Payload(i - 1, SentFor(sent[id], i - 1)[1])]))

\* C6: when the call that completes a session whose indexes 0..N-1 were each
\* submitted once returns without error, the final file holds the submitted
\* payloads in increasing index order and has the declared total size
C6_AssembledInIndexOrder ==
    (/\ ret.op = "finalizeChunkedUpload"
     /\ ret.err = ErrNone
     /\ EachIndexOnce(ret.id))
    => /\ PathExists(fs, ret.path)
       /\ fs[ret.path].data = InIndexOrder(ret.id)
       /\ Len(fs[ret.path].data) = progress[ret.id].TotalBytes

\* C7: a chunk request that the chunked-upload handler answers for an upload id
\* that an init request returned, while that upload is not yet finalized, is
\* not answered with not-found
C7_SessionFoundUntilFinalized ==
    (/\ resp.handler = "ChunkedUpload"
     /\ resp.id \in issued
     /\ resp.id \in DOMAIN progress
     /\ progress[resp.id].Status \notin {StatusCompleted, StatusFailed})
    => resp.err # ErrNotFound

\* the paths whose node differs between two filesystems or is in one only
Changed(before, after) ==
    {p \in DOMAIN before \cup DOMAIN after :
        \/ p \notin DOMAIN before
        \/ p \notin DOMAIN after
        \/ before[p] # after[p]}

\* p is a descendant of dir by path components, and not dir itself
Below(p, dir) == Within(p, dir) /\ p # dir

\* C4: over an Extract, every path at which a file or directory is created or
\* written from an entry of the archive is a descendant of the destination
\* directory by path components; the only other paths that change are the
\* destination directory and its ancestors, which Extract makes before it
\* reads the entries
C4_ExtractStaysBelowDestination ==
    [][ret'.op = "Extract" /\ ret'.id # 0
       => \A p \in Changed(fs, fs') :
             Below(p, ret'.path) \/ p \in Ancestors(ret'.path)]_vars

\* an Extract has returned after it wrote below the destination from an archive
\* with an entry that the check of extractFile turned down
C4_Witness ==
    /\ ret.op = "Extract"
    /\ ret.err = ErrPathTraversal
    /\ ret.id # 0
    /\ \E p \in DOMAIN fs : Below(p, ret.path) /\ fs[p].kind = "file"

\* C5: when Extract fails because an entry resolves outside the destination,
\* nothing below the destination was created or written by that Extract
C5_NothingExtractedOnTraversal ==
    [][ret'.op = "Extract" /\ ret'.id # 0 /\ ret'.err = ErrPathTraversal
       => \A p \in Changed(fs, fs') : ~Below(p, ret'.path)]_vars

\* C2: every path that the call of the last step built and used on the
\* filesystem is the tenant root or a descendant of it
C2_TouchedWithinRoot == \A p \in touched : Within(p, BasePath)

\* the operations that register a progress record
Registering == {"Upload", "finalizeChunkedUpload", "Compress", "Extract"}

\* C10: when a call of Upload, chunk finalize, Compress or Extract that has a
\* registered record returns, the record is failed with a non-empty error text
\* if a step of the call after the registration failed (the call returns an
\* error, or the Close that writes the end of its archive failed), and
\* completed otherwise
C10_ReturnsWithTerminalRecord ==
    (ret.op \in Registering /\ ret.id \in DOMAIN progress)
    => IF ret.err # ErrNone \/ ret.dropped # ""
       THEN /\ progress[ret.id].Status = StatusFailed
            /\ progress[ret.id].Error # ""
       ELSE progress[ret.id].Status = StatusCompleted

(***************************************************************************)
(* Claims about the handlers of one tenant, checked under SpecFm.          *)
(***************************************************************************)
\* C11: a failure of the change-owner step never changes the outcome of the
\* operation: every step of Upload, Extract, Copy, CreateFile or CreateFolder
\* taken with the change-owner step failing is the step the same call takes
\* with the change-owner step succeeding (same result returned, same record,
\* same files; the model keeps no owner attribute)
C11_OwnerFailureSameOutcome ==
    [][/\ \A id \in DOMAIN ups : UploadFinish(id, FALSE) => UploadFinish(id, TRUE)
       /\ \A destination \in {<<".">>, <<"e">>}, mkdirOk \in BOOLEAN, failAt \in 0..1 :
             Extract(<<"z">>, destination, mkdirOk, failAt, FALSE)
             => Extract(<<"z">>, destination, mkdirOk, failAt, TRUE)
       /\ \A relativePath \in {<<"n">>, <<"c">>}, connectOk \in BOOLEAN, ioOk \in BOOLEAN :
             /\ CreateFile(relativePath, <<5>>, connectOk, ioOk, FALSE)
                => CreateFile(relativePath, <<5>>, connectOk, ioOk, TRUE)
             /\ CreateFolder(relativePath, connectOk, ioOk, FALSE)
                => CreateFolder(relativePath, connectOk, ioOk, TRUE)
       /\ \A sources \in CopySources, overwrite \in BOOLEAN, connectOk \in BOOLEAN :
             Copy(sources, <<"e">>, overwrite, connectOk, TRUE, 0, FALSE)
             => Copy(sources, <<"e">>, overwrite, connectOk, TRUE, 0, TRUE)]_vars

\* C19: while the requests carry a remote descriptor, no step serving one
\* changes the local filesystem or uses a local path, whatever the kind of
\* the request, and the remote filesystem changes only in a step for which
\* the session was established
C19_RemoteNeverLocal ==
    [][ssh.remote
       => /\ fs' = fs
          /\ touched' = touched \/ touched' = {}
          /\ rfs' # rfs => ssh'.session = "connected"]_vars

(***************************************************************************)
(* Claims about GenerateUniqueName, checked under SpecUnique.              *)
(***************************************************************************)
\* name_k.ext for a path name.ext, written out character by character
Suffixed(path, k) ==
    IF Len(path) >= 2 /\ SubSeq(path, Len(path) - 1, Len(path)) = <<".", "a">>
    THEN SubSeq(path, 1, Len(path) - 2) \o <<"_">> \o Itoa(k) \o <<".", "a">>
    ELSE path \o <<"_">> \o Itoa(k)

\* C12: GenerateUniqueName returns the path itself when nothing exists
\* there; otherwise name_k.ext in the same directory for the smallest k >= 1
\* such that name_k.ext does not exist; the path returned never names an
\* entry that exists at the time of the call
C12_FirstUnusedName ==
    (Resolved /\ vpBase = <<>>)
    => /\ ~PathExists(fs, vpOut.path)
       /\ ~PathExists(fs, vpReq) => vpOut.path = vpReq
       /\ PathExists(fs, vpReq)
          => \E k \in 1..(Cardinality(UniqueNames) + 1) :
                /\ vpOut.path = Suffixed(vpReq, k)
                /\ \A j \in 1..(k - 1) : PathExists(fs, Suffixed(vpReq, j))

\* name.ext and name_1.ext are there and the call returned name_2.ext
C12_Witness ==
    /\ Resolved /\ vpBase = <<>>
    /\ vpReq = Join(BasePath, <<"f", ".", "a">>)
    /\ PathExists(fs, vpReq)
    /\ PathExists(fs, Join(BasePath, <<"f", "_", "1", ".", "a">>))
    /\ vpOut.path = Join(BasePath, <<"f", "_", "2", ".", "a">>)

\* C13: when an Extract that succeeds writes a file entry whose target
\* exists already, the existing file keeps its content and the entry is
\* written under the first unused suffixed name
C13_ExtractKeepsExisting ==
    [][(ret'.op = "Extract" /\ nextId' # nextId /\ ret'.err = ErrNone)
       => \A i \in DOMAIN fs[ArchivePath].entries :
             (/\ ~fs[ArchivePath].entries[i].IsDir
              /\ PathExists(fs, Join(ret'.path, fs[ArchivePath].entries[i].Name)))
             => /\ fs'[Join(ret'.path, fs[ArchivePath].entries[i].Name)]
                   = fs[Join(ret'.path, fs[ArchivePath].entries[i].Name)]
                /\ PathExists(fs', Suffixed(Join(ret'.path, fs[ArchivePath].entries[i].Name), 1))]_vars

\* every entry of files is an entry of after, with the same content
Kept(files, after) == \A q \in DOMAIN files : q \in DOMAIN after /\ after[q] = files[q]

\* C14: Copy with overwrite=false leaves every entry that exists, on the
\* local and on the remote filesystem, as it is, and the entry it makes last
\* lies at a name that was unused on the filesystem it writes to
C14_CopyKeepsExisting ==
    [][\A sources \in CopySources, destination \in {<<"d">>, <<"e">>},
          connectOk \in BOOLEAN, mkdirOk \in BOOLEAN, failAt \in 0..1 :
          Copy(sources, destination, FALSE, connectOk, mkdirOk, failAt, TRUE)
          => /\ Kept(fs, fs')
             /\ Kept(rfs, rfs')
             /\ ret'.path # <<>> => ~PathExists(Backend, ret'.path)]_vars

(***************************************************************************)
(* Claims about Compress and Extract, checked under SpecRound.             *)
(***************************************************************************)
\* the path resolves inside the root and names something that exists
GoodInput(path) ==
    /\ ValidatePath(BasePath, path).err = ErrNone
    /\ PathExists(fs, ValidatePath(BasePath, path).path)

\* the good paths of a request, resolved, in the order of the request
GoodInputs(paths) ==
    LET kept == SelectSeq(paths, GoodInput)
    IN  [i \in 1..Len(kept) |-> ValidatePath(BasePath, kept[i]).path]

\* the entries an archive of the paths has to hold
Archived(paths) ==
    LET items == AllEntries(fs, GoodInputs(paths))
    IN  [k \in 1..Len(items) |-> items[k].entry]

\* C15: Compress passes over every input path that does not resolve or does
\* not exist and archives all the others; it returns not-found, with no
\* record registered and no archive made, exactly when no input path is
\* valid
C15_CompressSkipsBadInputs ==
    [][\A paths \in RoundPaths, createOk \in BOOLEAN, failAt \in 0..2, closeOk \in BOOLEAN :
          Compress(paths, <<"o">>, TRUE, createOk, failAt, closeOk)
          => IF \A i \in 1..Len(paths) : ~GoodInput(paths[i])
             THEN /\ ret'.err = ErrNotFound
                  /\ ret'.id = 0
                  /\ progress' = progress
                  /\ fs' = fs
             ELSE /\ ret'.err # ErrNotFound
                  /\ ret'.id \in DOMAIN progress' \ DOMAIN progress
                  /\ (ret'.err = ErrNone /\ ret'.dropped = "")
                     => /\ fs'[ret'.path].kind = "zip"
                        /\ fs'[ret'.path].entries = Archived(paths)]_vars

\* a Compress of a request with a bad path and the file returned without
\* error, and its archive holds the file alone
C15_Witness ==
    /\ ret.op = "Compress"
    /\ ret.err = ErrNone
    /\ ret.dropped = ""
    /\ fs[ret.path].kind = "zip"
    /\ fs[ret.path].entries = <<ZipEntry(<<"n">>, FALSE, <<4>>)>>

\* the files below dir, as relative path and content
FilesBelow(dir) ==
    { [rel |-> SubSeq(q, Len(dir) + 1, Len(q)), data |-> fs[q].data] :
        q \in {r \in DOMAIN fs : Below(r, dir) /\ fs[r].kind = "file"} }

\* an Extract into the new directory e returned without error, after a
\* Compress of the tree that completed and whose archive was closed
RoundTripDone ==
    /\ ret.op = "Extract"
    /\ ret.err = ErrNone
    /\ ret.id = 2
    /\ ret.path = Join(BasePath, <<"e">>)
    /\ progress[1].Status = StatusCompleted
    /\ fs[Join(BasePath, <<"o">>)].kind = "zip"
    /\ Len(fs[Join(BasePath, <<"o">>)].entries) > 0
    /\ fs[Join(BasePath, <<"o">>)].entries[1].Name = <<"t", "/">>

OthersUnchanged(id) ==
    \A other \in DOMAIN progress \ {id} :
        other \in DOMAIN progress' /\ progress'[other] = progress[other]

\* C17: with Upload calls of distinct identifiers in flight together, the
\* registration, every update, the failure mark and the completion mark of
\* one leave the record of every other as it is, in every interleaving, and
\* the bytes a record shows while its call copies are the bytes that call
\* has written
C17_RecordsIsolated ==
    /\ [](\A id \in DOMAIN ups :
             ups[id].pc = "copy" => progress[id].UploadedBytes = ups[id].written)
    /\ [][/\ nextId' # nextId => OthersUnchanged(nextId)
          /\ \A id \in DOMAIN ups :
                (\/ \E createOk \in BOOLEAN : UploadCreate(id, createOk)
                 \/ \E n \in 1..MaxStream : UploadWrite(id, n)
                 \/ UploadCopyError(id)
                 \/ UploadFinish(id, TRUE))
                => OthersUnchanged(id)]_vars

\* two calls are copying and their records show different byte counts
C17_Witness ==
    /\ {1, 2} \subseteq DOMAIN ups
    /\ ups[1].pc = "copy" /\ ups[2].pc = "copy"
    /\ progress[1].UploadedBytes = 2
    /\ progress[2].UploadedBytes = 1

(***************************************************************************)
(* Claims about the progress stream, checked under SpecStreamFair.         *)
(***************************************************************************)
\* C18: the stream of an identifier that is in the store emits the record
\* on every tick; it stops only after it has emitted the record with its
\* terminal status, and emits nothing after a record with a terminal status;
\* and once the record is terminal the stream ends
C18_StreamEndsOnTerminal ==
    /\ [](~stream.afterTerminal)
    /\ [](stream.end = "terminal" => IsTerminal(stream.last))
    /\ [][(StreamTick /\ stream.id \in DOMAIN progress)
          => stream'.last = progress[stream.id]]_vars
    /\ ((stream.open /\ stream.id \in DOMAIN progress /\ IsTerminal(progress[stream.id]))
        ~> ~stream.open)

(***************************************************************************)
(* Claims about GetRelativePath, checked under SpecRel.                    *)
(***************************************************************************)
\* the request is a relative path in its cleaned form that ValidatePath
\* resolved to the root or to a descendant of it
ValidRelative ==
    /\ vpReq = Clean(vpReq)
    /\ ~IsAbs(vpReq)
    /\ vpOut # NoResult
    /\ vpOut.err = ErrNone
    /\ Within(vpOut.path, Clean(vpBase))

\* C20: for every root and every valid relative path p, GetRelativePath of
\* the root and of what ValidatePath returned for p succeeds and returns p
C20_RelativeOfResolved ==
    (ret.op = "GetRelativePath" /\ ValidRelative)
    => /\ ret.err = ErrNone
       /\ ret.path = vpReq

(***************************************************************************)
(* Claims about the concurrent calls of the chunked upload service.        *)
(***************************************************************************)
\* the step ran the reassembly of finalizeChunkedUpload (lines 382-421)
Reassembled ==
    /\ ret'.op = "finalizeChunkedUpload"
    /\ ret'.err # ErrNotFound

\* C21: a chunk session is consumed once. A session that left the store never
\* comes back; the call of UploadChunk that ends with the received count equal
\* to the expected count while the session is stored runs the reassembly and
\* takes the session out, every other ending call runs no reassembly and
\* leaves the files alone; a call of UploadChunk for an id whose session is
\* gone returns not-found and changes no file
C21_SessionConsumedOnce ==
    [][/\ \A id \in 1..(nextId - 1) :
              id \notin DOMAIN chunks => id \notin DOMAIN chunks'
       /\ \A c \in DOMAIN calls, createOk \in BOOLEAN :
              UploadChunkEnd(c, createOk, TRUE) =>
                  IF /\ calls[c].uploadedChunks = calls[c].sess.TotalChunks
                     /\ calls[c].id \in DOMAIN chunks
                  THEN Reassembled /\ calls[c].id \notin DOMAIN chunks'
                  ELSE ~Reassembled /\ fs' = fs /\ scratch' = scratch
       /\ \A uploadID \in 1..(nextId - 1), chunkIndex \in 0..1, writeOk \in BOOLEAN :
              (UploadChunkBegin(uploadID, chunkIndex, 1, writeOk)
                   /\ uploadID \notin DOMAIN chunks)
              => /\ ret'.err = ErrNotFound
                 /\ fs' = fs
                 /\ scratch' = scratch
                 /\ calls' = calls]_vars

\* a duplicate of the last chunk, received before the reassembly ran, ended
\* after it: its finalize found no session and the file of the upload is there
C21_Witness ==
    /\ ret.op = "finalizeChunkedUpload"
    /\ ret.err = ErrNotFound
    /\ ret.id \notin DOMAIN chunks
    /\ ret.id \in DOMAIN progress
    /\ progress[ret.id].Status = StatusCompleted
    /\ PathExists(fs, Join(BasePath, <<"f">>))

\* C22: a call of UploadChunk runs the finalization only when every index of
\* 0..TotalChunks-1 of its session has been received; an index outside that
\* range does not count toward it
C22_FinalizeNeedsEveryIndex ==
    [][\A c \in DOMAIN calls, createOk \in BOOLEAN :
           (UploadChunkEnd(c, createOk, TRUE) /\ Reassembled)
           => \A i \in 0..(calls[c].sess.TotalChunks - 1) :
                  SentFor(sent[calls[c].id], i) # <<>>]_vars

\* C23: the record a subscriber received for an operation that is not terminal
\* and has a total above zero holds a byte count and a percentage of the same
\* update: the percentage is floor(bytes * 100 / total)
C23_ObservedPercentOfBytes ==
    (/\ stream.last # Nothing
     /\ stream.last # NotFoundEvent
     /\ ~IsTerminal(stream.last)
     /\ stream.last.TotalBytes > 0)
    => stream.last.Progress = Percent(stream.last.UploadedBytes, stream.last.TotalBytes)

\* C24: when a handler has returned, neither the secure-shell client nor the
\* SFTP client that was opened for its request is still open, whatever the
\* answer; and after an SFTP client that could not be made, the secure-shell
\* client that had been opened is closed
C24_SessionsClosedAtReturn ==
    ssh.pc = "returned"
    => /\ ssh.sshClient # "open"
       /\ ssh.sftpClient # "open"
       /\ (ssh.session = "failed" /\ ssh.sshClient # "none") => ssh.sshClient = "closed"

\* a remote Download without a path was answered 400 after both clients of its
\* session were closed
C24_Witness ==
    /\ ssh.pc = "returned"
    /\ ssh.handler = "Download"
    /\ resp.status = 400
    /\ ssh.sshClient = "closed"
    /\ ssh.sftpClient = "closed"

\* the tree that lay at src before the step lies at dst after it, node for
\* node with the same content
CopyOfAt(src, dst) ==
    \A q \in DOMAIN Backend :
        Within(q, src)
        => LET t == dst \o SubSeq(q, Len(src) + 1, Len(q))
           IN  t \in DOMAIN Backend' /\ Backend'[t] = Backend[q]

\* the tree that lay at src before the step is as it was
LeftInPlace(src) ==
    \A q \in DOMAIN Backend :
        Within(q, src) => q \in DOMAIN Backend' /\ Backend'[q] = Backend[q]

\* C25: a Move of a source that exists, whether its rename works or fails,
\* either returns an error and leaves the source in place, or returns none
\* and by then the source's tree lies at the destination it names: the
\* source is not removed unless a complete copy of it exists
C25_MoveRemovesAfterCopy ==
    [][\A case \in MoveCases, overwrite \in BOOLEAN, mkdirOk \in BOOLEAN,
          renameOk \in BOOLEAN, failAt \in 0..1 :
          (/\ Move(<<case[1]>>, case[2], overwrite, TRUE, mkdirOk, renameOk, failAt)
           /\ PathExists(Backend, Join(BasePath, case[1])))
          => IF ret'.err # ErrNone
             THEN LeftInPlace(Join(BasePath, case[1]))
             ELSE CopyOfAt(Join(BasePath, case[1]), ret'.path)]_vars

\* C26: of the Upload calls in flight that have created their file, no two
\* write to the same path, and the file of each holds the bytes that call
\* has written and nothing else
C26_ConcurrentUploadsApart ==
    \A i \in DOMAIN ups :
        ups[i].pc = "copy"
        => /\ PathExists(fs, ups[i].path)
           /\ fs[ups[i].path].data = Bytes(i, ups[i].written)
           /\ \A j \in DOMAIN ups \ {i} :
                  ups[j].pc = "copy" => ups[j].path # ups[i].path

\* C27: when Compress has returned and its record says completed, the output
\* is a complete archive on disk, and no Close of the archive has failed
C27_CompletedArchiveOnDisk ==
    (/\ ret.op = "Compress"
     /\ ret.id \in DOMAIN progress
     /\ progress[ret.id].Status = StatusCompleted)
    => /\ PathExists(fs, ret.path)
       /\ fs[ret.path].kind = "zip"
       /\ ret.dropped = ""

\* C28: a terminal status is final: no step changes the status of a record
\* that is completed or failed, whatever is done for its identifier afterwards
C28_TerminalStatusAbsorbing ==
    [][\A id \in DOMAIN progress :
          IsTerminal(progress[id])
          => /\ id \in DOMAIN progress'
             /\ progress'[id].Status = progress[id].Status]_vars

\* a call for a chunk that was received before the finalization failed ended
\* after it: its update and its finalize attempt left the record failed
C28_Witness ==
    /\ ret.op = "finalizeChunkedUpload"
    /\ ret.err = ErrNotFound
    /\ ret.id \in DOMAIN progress
    /\ progress[ret.id].Status = StatusFailed

\* C29: the entries of the archive that a Compress call has written have
\* names that differ from one another
C29_EntryNamesDistinct ==
    (/\ ret.op = "Compress"
     /\ PathExists(fs, ret.path)
     /\ fs[ret.path].kind = "zip")
    => \A i, j \in 1..Len(fs[ret.path].entries) :
           i # j => fs[ret.path].entries[i].Name # fs[ret.path].entries[j].Name

\* C30: no init of a chunked upload ends in a division by zero, and every
\* session an init has stored can complete: its chunk size is at least 1 and
\* its chunk count is ceil(TotalSize / ChunkSize) and at least 1
C30_InitSessionsCanComplete ==
    /\ ret.err # ErrDivideByZero
    /\ resp.err # ErrDivideByZero
    /\ \A id \in DOMAIN chunks :
           /\ chunks[id].ChunkSize >= 1
           /\ chunks[id].TotalChunks >= 1
           /\ (chunks[id].TotalChunks - 1) * chunks[id].ChunkSize < chunks[id].TotalSize
           /\ chunks[id].TotalSize <= chunks[id].TotalChunks * chunks[id].ChunkSize

====
